---- MODULE Spec2Model ----
(***************************************************************************)
(* A model of the client-side library state engine of static/app.js:      *)
(* the normalizer, the filter/sort engine, the incremental renderer, the   *)
(* selection manager, the refinement workflow and the persistence layer.   *)
(*                                                                         *)
(* JavaScript values are records [t, s, n, f, a]: t is the typeof-like     *)
(* tag, s the characters of a string, n + f/10 a number (n its floor,      *)
(* f its tenths), a the elements of an array.  A string is a sequence of   *)
(* symbols; a symbol is one character, and each keyword of the program     *)
(* (a status name, a filter sentinel) is written as one symbol.            *)
(***************************************************************************)
EXTENDS Integers, Sequences, FiniteSets, TLC

----------------------------------------------------------------------------
(* JavaScript values *)

JsVal(t, s, n, f, a) == [t |-> t, s |-> s, n |-> n, f |-> f, a |-> a]

Undefined == JsVal("undefined", <<>>, 0, 0, <<>>)
Null == JsVal("null", <<>>, 0, 0, <<>>)
NaN == JsVal("NaN", <<>>, 0, 0, <<>>)
Str(s) == JsVal("string", s, 0, 0, <<>>)
Num(n) == JsVal("number", <<>>, n, 0, <<>>)
Frac(n, f) == JsVal("number", <<>>, n, f, <<>>)
Arr(a) == JsVal("array", <<>>, 0, 0, a)

\* value == null || value === undefined, the test of the ?? operator
IsNullish(v) == v.t \in {"undefined", "null"}

\* !!value
Truthy(v) ==
  CASE v.t \in {"undefined", "null", "NaN"} -> FALSE
    [] v.t = "string" -> v.s # <<>>
    [] v.t = "number" -> ~(v.n = 0 /\ v.f = 0)
    [] OTHER -> TRUE

\* a ?? b
Coalesce(a, b) == IF IsNullish(a) THEN b ELSE a

\* a || b
OrElse(a, b) == IF Truthy(a) THEN a ELSE b

----------------------------------------------------------------------------
(* Strings *)

\* String.prototype.toLowerCase on one symbol
LowerSym(c) ==
  CASE c = "A" -> "a"
    [] c = "B" -> "b"
    [] c = "C" -> "c"
    [] c = "S" -> "s"
    [] c = "G" -> "g"
    [] c = "FINISHED" -> "finished"
    [] c = "Playing" -> "playing"
    [] c = "BACKLOG" -> "backlog"
    [] OTHER -> c

toLowerCase(s) == [i \in 1..Len(s) |-> LowerSym(s[i])]

RECURSIVE trimStart(_)
trimStart(s) ==
  IF s # <<>> /\ Head(s) = " " THEN trimStart(Tail(s)) ELSE s

RECURSIVE trimEnd(_)
trimEnd(s) ==
  IF s # <<>> /\ s[Len(s)] = " " THEN trimEnd(SubSeq(s, 1, Len(s) - 1)) ELSE s

\* String.prototype.trim
trim(s) == trimEnd(trimStart(s))

\* String.prototype.includes
includes(haystack, needle) ==
  \E i \in 0..(Len(haystack) - Len(needle)) :
    SubSeq(haystack, i + 1, i + Len(needle)) = needle

\* The collation rank of a symbol at sensitivity "base": case is ignored,
\* the space sorts before the digits, the digits before the letters.
SymRank(c) ==
  LET l == LowerSym(c) IN
  CASE l = " " -> 0
    [] l = "1" -> 1
    [] l = "2" -> 2
    [] l = "a" -> 10
    [] l = "b" -> 11
    [] l = "c" -> 12
    [] l = "g" -> 16
    [] l = "s" -> 28
    [] OTHER -> 40

\* a.localeCompare(b, undefined, { sensitivity: "base" }): -1, 0 or 1
RECURSIVE localeCompare(_, _)
localeCompare(a, b) ==
  IF a = <<>> /\ b = <<>> THEN 0
  ELSE IF a = <<>> THEN -1
  ELSE IF b = <<>> THEN 1
  ELSE IF SymRank(Head(a)) < SymRank(Head(b)) THEN -1
  ELSE IF SymRank(Head(a)) > SymRank(Head(b)) THEN 1
  ELSE localeCompare(Tail(a), Tail(b))

\* The decimal digit a symbol stands for, or -1
DigitOf(c) ==
  CASE c = "0" -> 0
    [] c = "1" -> 1
    [] c = "2" -> 2
    [] c = "3" -> 3
    [] OTHER -> -1

DigitSym(n) ==
  CASE n = 0 -> "0"
    [] n = 1 -> "1"
    [] n = 2 -> "2"
    [] n = 3 -> "3"
    [] OTHER -> "#"

\* String(value), as a template literal, toString() and Array.prototype.join
\* produce it; a number outside 0..3 prints as the symbol "#"
RECURSIVE toString(_)
RECURSIVE joinFrom(_, _)
joinFrom(a, i) ==
  IF i > Len(a) THEN <<>>
  ELSE (IF IsNullish(a[i]) THEN <<>> ELSE toString(a[i]))
       \o (IF i < Len(a) THEN <<",">> ELSE <<>>)
       \o joinFrom(a, i + 1)

toString(v) ==
  CASE v.t = "string" -> v.s
    [] v.t = "undefined" -> <<"undefined">>
    [] v.t = "null" -> <<"null">>
    [] v.t = "NaN" -> <<"NaN">>
    [] v.t = "number" ->
         IF v.f = 0 THEN <<DigitSym(v.n)>> ELSE <<DigitSym(v.n), ".", DigitSym(v.f)>>
    [] v.t = "array" -> joinFrom(v.a, 1)
    [] OTHER -> <<>>

\* The value of a string of decimal digits, or -1 when a symbol is no digit
RECURSIVE digitsValue(_, _)
digitsValue(s, acc) ==
  IF s = <<>> THEN acc
  ELSE IF DigitOf(Head(s)) < 0 THEN -1
  ELSE digitsValue(Tail(s), 10 * acc + DigitOf(Head(s)))

\* Number(value)
toNumber(v) ==
  LET Parse(s) ==
        IF s = <<>> THEN Num(0)
        ELSE IF Head(s) = "-" /\ Len(s) > 1 /\ digitsValue(Tail(s), 0) >= 0
          THEN Num(0 - digitsValue(Tail(s), 0))
        ELSE IF digitsValue(s, 0) >= 0 THEN Num(digitsValue(s, 0))
        ELSE NaN
  IN CASE v.t = "number" -> v
       [] v.t = "null" -> Num(0)
       [] v.t \in {"undefined", "NaN"} -> NaN
       [] OTHER -> Parse(trim(toString(v)))

----------------------------------------------------------------------------
(* The normalizer *)

DEFAULT_STATUS == <<"not_allocated">>

STATUS_OPTIONS ==
  << <<"not_allocated">>, <<"backlog">>, <<"playing">>, <<"finished">>,
     <<"replaying">> >>

StatusValues == {STATUS_OPTIONS[i] : i \in 1..Len(STATUS_OPTIONS)}

UNKNOWN_GENRE_VALUE == <<"__unknown">>

WITHOUT_NOT_ALLOCATED == <<"without_not_allocated">>

sanitizeStatus(value) ==
  IF ~Truthy(value) THEN Str(DEFAULT_STATUS)
  ELSE LET normalized == toLowerCase(toString(value)) IN
       IF \E i \in 1..Len(STATUS_OPTIONS) : STATUS_OPTIONS[i] = normalized
         THEN Str(normalized)
         ELSE Str(DEFAULT_STATUS)

clampFinishCount(value) ==
  LET Clamp(numeric) ==
        IF numeric.t # "number" \/ numeric.n < 0 THEN Num(0) ELSE Num(numeric.n)
  IN Clamp(toNumber(value))

\* The identifier of no record (null where the program holds an id)
NoId == -1

normalizeGame(game) ==
  LET finishValue ==
        Coalesce(Coalesce(Coalesce(game.finish_count, game.finishCount),
                          game.finish), Num(0))
  IN [game EXCEPT
        !.gallery_urls = Coalesce(game.gallery_urls, Arr(<<>>)),
        !.status = sanitizeStatus(game.status),
        !.finish_count = clampFinishCount(finishValue),
        !.genres = IF game.genres.t = "array"
                     THEN Arr(SelectSeq(game.genres.a, Truthy))
                     ELSE Arr(<<>>)]

\* normalizeGame raises a TypeError: game.finish_count of null or undefined
normalizeGameRaises(game) == game \in {Null, Undefined}

\* A record as the backend or the cache supplies it; the fields the engine
\* never reads (cover, trailer, thumbnail) are left out.
RawGame(title, platform, source, record_id, status, finish_count, rating, genres) ==
  [__id |-> NoId, title |-> title, platform |-> platform, source |-> source,
   description |-> Str(<<>>), record_id |-> record_id, status |-> status,
   finish_count |-> finish_count, finishCount |-> Undefined, finish |-> Undefined,
   rating |-> rating, genres |-> genres, gallery_urls |-> Undefined]

\* state.selection = null, and the games.find(...) that finds nothing
NoGame ==
  RawGame(Undefined, Undefined, Undefined, Undefined, Undefined, Undefined,
          Undefined, Undefined)

Ids(games) == {games[i].__id : i \in 1..Len(games)}

\* games.findIndex((game) => game.__id === gameId), 1-based; 0 when absent
findIndex(games, gameId) ==
  IF \E i \in 1..Len(games) : games[i].__id = gameId
    THEN CHOOSE i \in 1..Len(games) :
           /\ games[i].__id = gameId
           /\ \A j \in 1..(i - 1) : games[j].__id # gameId
    ELSE 0

\* games.find((g) => g.__id === gameId)
findGame(games, gameId) ==
  IF findIndex(games, gameId) = 0 THEN NoGame ELSE games[findIndex(games, gameId)]

----------------------------------------------------------------------------
(* The filter/sort engine *)

\* Array.prototype.sort with comparator Cmp: the stable order, by merging
RECURSIVE Merge(_, _, _)
Merge(Cmp(_, _), a, b) ==
  IF a = <<>> THEN b
  ELSE IF b = <<>> THEN a
  ELSE IF Cmp(Head(a), Head(b)) <= 0
    THEN <<Head(a)>> \o Merge(Cmp, Tail(a), b)
    ELSE <<Head(b)>> \o Merge(Cmp, a, Tail(b))

RECURSIVE StableSort(_, _)
StableSort(Cmp(_, _), s) ==
  IF Len(s) <= 1 THEN s
  ELSE LET h == Len(s) \div 2
       IN Merge(Cmp, StableSort(Cmp, SubSeq(s, 1, h)),
                     StableSort(Cmp, SubSeq(s, h + 1, Len(s))))

\* compareTitles at a case-sensitive strength: an upper-case symbol sorts
\* before its lower-case form
compareTitles_CaseSensitive(a, b) ==
  LET x == toString(OrElse(a.title, Str(<<>>)))
      y == toString(OrElse(b.title, Str(<<>>)))
  IN IF localeCompare(x, y) # 0 THEN localeCompare(x, y)
     ELSE IF x = y THEN 0
     ELSE IF toLowerCase(x) = x THEN 1
     ELSE -1

compareTitles(a, b) ==
  localeCompare(toString(OrElse(a.title, Str(<<>>))),
                toString(OrElse(b.title, Str(<<>>))))

\* ratingB - ratingA of the score comparator, as a sign; a rating that is
\* not a number counts as -Infinity
compareRatings(a, b) ==
  LET numA == a.rating.t = "number"
      numB == b.rating.t = "number"
  IN IF ~numA /\ ~numB THEN 0
     ELSE IF ~numA THEN 1
     ELSE IF ~numB THEN -1
     ELSE IF b.rating.n # a.rating.n
       THEN (IF b.rating.n > a.rating.n THEN 1 ELSE -1)
     ELSE IF b.rating.f # a.rating.f
       THEN (IF b.rating.f > a.rating.f THEN 1 ELSE -1)
     ELSE 0

\* The score comparator without its title tie-break
compareScore_NoTieBreak(a, b) == compareRatings(a, b)

compareScore(a, b) ==
  IF compareRatings(a, b) # 0 THEN compareRatings(a, b) ELSE compareTitles(a, b)

\* The draws of Math.random in the shuffle of a list of n records: for the
\* loop index i (0-based, n-1 down to 1) the index j in 0..i
RandomDraws(n) ==
  {d \in [1..(n - 1) -> 0..(n - 1)] : \A i \in 1..(n - 1) : d[i] <= i}

\* [sorted[i], sorted[j]] = [sorted[j], sorted[i]], 0-based
Swap(s, i, j) == [s EXCEPT ![i + 1] = s[j + 1], ![j + 1] = s[i + 1]]

RECURSIVE shuffleFrom(_, _, _)
shuffleFrom(sorted, i, draws) ==
  IF i <= 0 THEN sorted
  ELSE shuffleFrom(Swap(sorted, i, draws[i]), i - 1, draws)

\* sortGames under the sort mode, with the draws of Math.random
sortGames(games, sortMode, draws) ==
  IF sortMode = "random" THEN shuffleFrom(games, Len(games) - 1, draws)
  ELSE IF sortMode = "score" THEN StableSort(compareScore, games)
  ELSE StableSort(compareTitles, games)

\* The filter predicate composing its tests with OR
matchesFilter_AnyTest(game, queryRaw, storeFilterRaw, statusFilter, genreFilter) ==
  LET query == toLowerCase(trim(queryRaw))
      haystack ==
        toLowerCase(toString(game.title) \o <<" ">>
                    \o toString(Coalesce(game.platform, Str(<<>>))) \o <<" ">>
                    \o toString(Coalesce(game.source, Str(<<>>))) \o <<" ">>
                    \o toString(game.description))
      gameStatus == sanitizeStatus(game.status).s
      genres == IF game.genres.t = "array" THEN game.genres.a ELSE <<>>
  IN \/ query = <<>> /\ storeFilterRaw = <<>> /\ statusFilter = <<>>
        /\ genreFilter = <<>>
     \/ query # <<>> /\ includes(haystack, query)
     \/ /\ storeFilterRaw # <<>>
        /\ toLowerCase(toString(OrElse(game.source, Str(<<>>))))
             = toLowerCase(storeFilterRaw)
     \/ statusFilter # <<>> /\ gameStatus = statusFilter
     \/ /\ genreFilter # <<>>
        /\ toLowerCase(genreFilter)
             \in {toLowerCase(toString(genres[i])) : i \in 1..Len(genres)}

\* The filter predicate of applyFilter for one record
matchesFilter(game, queryRaw, storeFilterRaw, statusFilter, genreFilter) ==
  LET query == toLowerCase(trim(queryRaw))
      storeFilter == toLowerCase(storeFilterRaw)
      haystack ==
        toLowerCase(toString(game.title) \o <<" ">>
                    \o toString(Coalesce(game.platform, Str(<<>>))) \o <<" ">>
                    \o toString(Coalesce(game.source, Str(<<>>))) \o <<" ">>
                    \o toString(game.description))
      matchesQuery == query = <<>> \/ includes(haystack, query)
      matchesStore ==
        \/ storeFilter = <<>>
        \/ toLowerCase(toString(OrElse(game.source, Str(<<>>)))) = storeFilter
      gameStatus == sanitizeStatus(game.status).s
      matchesStatus ==
        \/ statusFilter = <<>>
        \/ IF statusFilter = WITHOUT_NOT_ALLOCATED
             THEN gameStatus # DEFAULT_STATUS
             ELSE gameStatus = statusFilter
      genres == IF game.genres.t = "array" THEN game.genres.a ELSE <<>>
      normalizedGenres ==
        {toLowerCase(toString(genres[i])) : i \in 1..Len(genres)}
      matchesGenre ==
        \/ genreFilter = <<>>
        \/ IF genreFilter = UNKNOWN_GENRE_VALUE
             THEN normalizedGenres = {}
             ELSE toLowerCase(genreFilter) \in normalizedGenres
  IN matchesQuery /\ matchesStore /\ matchesStatus /\ matchesGenre

\* state.games.filter(...) of applyFilter
filterGames(games, queryRaw, storeFilter, statusFilter, genreFilter) ==
  LET Keep(g) == matchesFilter(g, queryRaw, storeFilter, statusFilter, genreFilter)
  IN SelectSeq(games, Keep)

----------------------------------------------------------------------------
(* The program state.  The operators below take the state as a record S of *)
(* the variables and return the state the JavaScript function leaves.      *)

VARIABLES
  games,                  \* state.games, the Library
  filtered,               \* state.filtered, the visible view
  selection,              \* state.selection, the record of the detail view
  viewMode,               \* state.viewMode
  sortMode,               \* state.sortMode
  storeFilter,            \* state.storeFilter
  statusFilter,           \* state.statusFilter
  genreFilter,            \* state.genreFilter
  selectedIds,            \* state.selectedIds
  profilePath,            \* state.profilePath (<<>> for null)
  gameIdCounter,
  renderGeneration,
  pendingDetailId,
  pendingDeleteId,
  pendingRefineId,
  pendingRefineSelection,
  pendingRefineMatches,
  searchInput,            \* elements.searchInput.value, the query
  grid,                   \* the cards of elements.grid, each with its record
  detailAfter,            \* the id of the card the detail node follows, or NoId
  detailGame,             \* the record the detail node shows
  loadingHidden,          \* elements.loadingIndicator has class "hidden"
  status,                 \* elements.status: the message and its error class
  searchDialogHidden,     \* elements.searchDialog.hidden
  confirmDialogHidden,    \* elements.confirmDialog.hidden
  searchResults,          \* the items of elements.searchResults
  searchConfirmDisabled,  \* elements.searchConfirmButton is disabled
  searchInputField,       \* elements.searchInputField.value
  profilePathInput,       \* elements.profilePathInput.value
  cache,                  \* localStorage[CACHE_STORAGE_KEY] (<<>> when absent)
  storedPath,             \* localStorage[PROFILE_STORAGE_KEY] (<<>> when absent)
  rafQueue,               \* the requestAnimationFrame callbacks not yet run
  net,                    \* the fetch requests in flight
  remote,                 \* the backend's profile store, by directory
  booted,                 \* the script has run bootstrapProfile
  lim,                    \* the bounds of the specification being checked
  probe,                  \* a function under test: its argument and results
  held,                   \* a reference a reader took to the array state.games
  rendered,               \* history: the list of the latest renderGrid call
  last                    \* history: the handler that ran last and what it saw

vars ==
  << games, filtered, selection, viewMode, sortMode, storeFilter, statusFilter,
     genreFilter, selectedIds, profilePath, gameIdCounter, renderGeneration,
     pendingDetailId, pendingDeleteId, pendingRefineId, pendingRefineSelection,
     pendingRefineMatches, searchInput, grid, detailAfter, detailGame,
     loadingHidden, status, searchDialogHidden, confirmDialogHidden,
     searchResults, searchConfirmDisabled, searchInputField, profilePathInput,
     cache, storedPath, rafQueue, net, remote, booted, lim, probe, held,
     rendered, last >>

State ==
  [games |-> games, filtered |-> filtered, selection |-> selection,
   viewMode |-> viewMode, sortMode |-> sortMode, storeFilter |-> storeFilter,
   statusFilter |-> statusFilter, genreFilter |-> genreFilter,
   selectedIds |-> selectedIds, profilePath |-> profilePath,
   gameIdCounter |-> gameIdCounter, renderGeneration |-> renderGeneration,
   pendingDetailId |-> pendingDetailId, pendingDeleteId |-> pendingDeleteId,
   pendingRefineId |-> pendingRefineId,
   pendingRefineSelection |-> pendingRefineSelection,
   pendingRefineMatches |-> pendingRefineMatches, searchInput |-> searchInput,
   grid |-> grid, detailAfter |-> detailAfter, detailGame |-> detailGame,
   loadingHidden |-> loadingHidden, status |-> status,
   searchDialogHidden |-> searchDialogHidden,
   confirmDialogHidden |-> confirmDialogHidden, searchResults |-> searchResults,
   searchConfirmDisabled |-> searchConfirmDisabled,
   searchInputField |-> searchInputField, profilePathInput |-> profilePathInput,
   cache |-> cache, storedPath |-> storedPath, rafQueue |-> rafQueue,
   net |-> net, remote |-> remote, booted |-> booted, lim |-> lim,
   probe |-> probe, held |-> held, rendered |-> rendered, last |-> last]

\* The step to the state S
Becomes(S) ==
  /\ games' = S.games
  /\ filtered' = S.filtered
  /\ selection' = S.selection
  /\ viewMode' = S.viewMode
  /\ sortMode' = S.sortMode
  /\ storeFilter' = S.storeFilter
  /\ statusFilter' = S.statusFilter
  /\ genreFilter' = S.genreFilter
  /\ selectedIds' = S.selectedIds
  /\ profilePath' = S.profilePath
  /\ gameIdCounter' = S.gameIdCounter
  /\ renderGeneration' = S.renderGeneration
  /\ pendingDetailId' = S.pendingDetailId
  /\ pendingDeleteId' = S.pendingDeleteId
  /\ pendingRefineId' = S.pendingRefineId
  /\ pendingRefineSelection' = S.pendingRefineSelection
  /\ pendingRefineMatches' = S.pendingRefineMatches
  /\ searchInput' = S.searchInput
  /\ grid' = S.grid
  /\ detailAfter' = S.detailAfter
  /\ detailGame' = S.detailGame
  /\ loadingHidden' = S.loadingHidden
  /\ status' = S.status
  /\ searchDialogHidden' = S.searchDialogHidden
  /\ confirmDialogHidden' = S.confirmDialogHidden
  /\ searchResults' = S.searchResults
  /\ searchConfirmDisabled' = S.searchConfirmDisabled
  /\ searchInputField' = S.searchInputField
  /\ profilePathInput' = S.profilePathInput
  /\ cache' = S.cache
  /\ storedPath' = S.storedPath
  /\ rafQueue' = S.rafQueue
  /\ net' = S.net
  /\ remote' = S.remote
  /\ booted' = S.booted
  /\ lim' = S.lim
  /\ probe' = S.probe
  /\ held' = S.held
  /\ rendered' = S.rendered
  /\ last' = S.last

\* The state is S
Is(S) ==
  /\ games = S.games
  /\ filtered = S.filtered
  /\ selection = S.selection
  /\ viewMode = S.viewMode
  /\ sortMode = S.sortMode
  /\ storeFilter = S.storeFilter
  /\ statusFilter = S.statusFilter
  /\ genreFilter = S.genreFilter
  /\ selectedIds = S.selectedIds
  /\ profilePath = S.profilePath
  /\ gameIdCounter = S.gameIdCounter
  /\ renderGeneration = S.renderGeneration
  /\ pendingDetailId = S.pendingDetailId
  /\ pendingDeleteId = S.pendingDeleteId
  /\ pendingRefineId = S.pendingRefineId
  /\ pendingRefineSelection = S.pendingRefineSelection
  /\ pendingRefineMatches = S.pendingRefineMatches
  /\ searchInput = S.searchInput
  /\ grid = S.grid
  /\ detailAfter = S.detailAfter
  /\ detailGame = S.detailGame
  /\ loadingHidden = S.loadingHidden
  /\ status = S.status
  /\ searchDialogHidden = S.searchDialogHidden
  /\ confirmDialogHidden = S.confirmDialogHidden
  /\ searchResults = S.searchResults
  /\ searchConfirmDisabled = S.searchConfirmDisabled
  /\ searchInputField = S.searchInputField
  /\ profilePathInput = S.profilePathInput
  /\ cache = S.cache
  /\ storedPath = S.storedPath
  /\ rafQueue = S.rafQueue
  /\ net = S.net
  /\ remote = S.remote
  /\ booted = S.booted
  /\ lim = S.lim
  /\ probe = S.probe
  /\ held = S.held
  /\ rendered = S.rendered
  /\ last = S.last

----------------------------------------------------------------------------
(* The detail view and the incremental renderer *)

BATCH_SIZE == 24

\* A status message: its wording and the count or name it carries
Message(text, arg) == [text |-> text, arg |-> arg]

showStatus(S, message, type) ==
  [S EXCEPT !.status = [message |-> message, error |-> (type = "error")]]

closeDetail(S, clearSelection) ==
  [S EXCEPT !.selection = IF clearSelection THEN NoGame ELSE @,
            !.detailAfter = NoId]

openDetail(S, game, preserveSelection) ==
  IF game = NoGame THEN closeDetail(S, TRUE)
  ELSE LET S1 == [S EXCEPT
                    !.selection = IF preserveSelection THEN @ ELSE game,
                    !.detailGame = game]
       IN IF game.__id \notin Ids(S1.grid)
            THEN closeDetail(S1, TRUE)
            ELSE [S1 EXCEPT !.detailAfter = game.__id]

\* One pass of the batch loop of streamRender, up to its await: the batch is
\* appended, the pending detail view reopened, the next frame requested.
streamBatch(S, generation, list, queue) ==
  LET n == IF Len(queue) < BATCH_SIZE THEN Len(queue) ELSE BATCH_SIZE
      S1 == [S EXCEPT !.grid = @ \o SubSeq(queue, 1, n)]
      S2 == IF /\ S1.pendingDetailId # NoId
               /\ S1.pendingDetailId \in Ids(S1.grid)
               /\ S1.selection # NoGame
              THEN [openDetail(S1, S1.selection, TRUE) EXCEPT
                      !.pendingDetailId = NoId]
              ELSE S1
  IN [S2 EXCEPT !.rafQueue =
        Append(@, [generation |-> generation, games |-> list,
                   queue |-> SubSeq(queue, n + 1, Len(queue))])]

\* streamRender without its generation tests
streamRender_NoGenerationTest(S, generation, list, queue) ==
  IF queue # <<>> THEN streamBatch(S, generation, list, queue)
  ELSE LET S1 == [S EXCEPT !.loadingHidden = TRUE, !.pendingDetailId = NoId]
       IN IF S1.selection = NoGame THEN closeDetail(S1, FALSE)
          ELSE LET stillVisible == findGame(list, S1.selection.__id)
               IN IF stillVisible = NoGame THEN closeDetail(S1, TRUE)
                  ELSE openDetail(S1, stillVisible, TRUE)

\* streamRender whose superseded generation hides the loading indicator
streamRender_StaleHides(S, generation, list, queue) ==
  IF queue # <<>> /\ generation = S.renderGeneration
    THEN streamBatch(S, generation, list, queue)
  ELSE IF generation # S.renderGeneration THEN [S EXCEPT !.loadingHidden = TRUE]
  ELSE LET S1 == [S EXCEPT !.loadingHidden = TRUE, !.pendingDetailId = NoId]
       IN IF S1.selection = NoGame THEN closeDetail(S1, FALSE)
          ELSE LET stillVisible == findGame(list, S1.selection.__id)
               IN IF stillVisible = NoGame THEN closeDetail(S1, TRUE)
                  ELSE openDetail(S1, stillVisible, TRUE)

\* streamRender that keeps the selection of a record absent from the list
streamRender_KeepsAbsentSelection(S, generation, list, queue) ==
  IF queue # <<>> /\ generation = S.renderGeneration
    THEN streamBatch(S, generation, list, queue)
  ELSE IF generation # S.renderGeneration THEN S
  ELSE LET S1 == [S EXCEPT !.loadingHidden = TRUE, !.pendingDetailId = NoId]
       IN IF S1.selection = NoGame THEN closeDetail(S1, FALSE)
          ELSE LET stillVisible == findGame(list, S1.selection.__id)
               IN IF stillVisible = NoGame THEN closeDetail(S1, FALSE)
                  ELSE openDetail(S1, stillVisible, TRUE)

\* streamRender that returns after its loop without its completion step
streamRender_NoCompletion(S, generation, list, queue) ==
  IF queue # <<>> /\ generation = S.renderGeneration
    THEN streamBatch(S, generation, list, queue)
  ELSE S

\* streamRender from the test of its while loop on: at its start, and when
\* the awaited animation frame arrives
streamRender(S, generation, list, queue) ==
  IF queue # <<>> /\ generation = S.renderGeneration
    THEN streamBatch(S, generation, list, queue)
  ELSE IF generation # S.renderGeneration THEN S
  ELSE LET S1 == [S EXCEPT !.loadingHidden = TRUE, !.pendingDetailId = NoId]
       IN IF S1.selection = NoGame THEN closeDetail(S1, FALSE)
          ELSE LET stillVisible == findGame(list, S1.selection.__id)
               IN IF stillVisible = NoGame THEN closeDetail(S1, TRUE)
                  ELSE openDetail(S1, stillVisible, TRUE)

renderGrid(S, list) ==
  LET S1 == [S EXCEPT !.renderGeneration = @ + 1,
                      !.grid = <<>>,
                      !.detailAfter = NoId,
                      !.rendered = list]
  IN IF list = <<>>
       THEN [closeDetail(S1, TRUE) EXCEPT !.loadingHidden = TRUE]
       ELSE streamRender(
              [S1 EXCEPT
                 !.pendingDetailId =
                    IF S1.selection # NoGame THEN S1.selection.__id ELSE NoId,
                 !.loadingHidden = FALSE],
              S1.renderGeneration, list, list)

\* buildFilterMessage: the count shown and whether a filter is named
buildFilterMessage(count, anyFilter) ==
  IF anyFilter THEN Message("Showing N games (filters).", count)
  ELSE Message("Displaying N games.", count)

applyFilter(S, silentStatus, draws) ==
  LET Render(list) == renderGrid([S EXCEPT !.filtered = list], list)
      Report(S2) ==
        IF silentStatus THEN S2
        ELSE showStatus(S2,
               buildFilterMessage(Len(S2.filtered),
                 \/ trim(S.searchInput) # <<>>
                 \/ S.storeFilter # <<>>
                 \/ S.statusFilter # <<>>
                 \/ S.genreFilter # <<>>),
               "info")
  IN Report(Render(sortGames(filterGames(S.games, S.searchInput, S.storeFilter,
                                         S.statusFilter, S.genreFilter),
                             S.sortMode, draws)))

----------------------------------------------------------------------------
(* Derived filter options *)

RECURSIVE distinctFrom(_, _)
\* Array.from(new Set(values)): the first occurrences, in order
distinctFrom(values, seen) ==
  IF values = <<>> THEN <<>>
  ELSE IF Head(values) \in seen THEN distinctFrom(Tail(values), seen)
  ELSE <<Head(values)>> \o distinctFrom(Tail(values), seen \cup {Head(values)})

updateStoreFilterOptions(S) ==
  LET normalizedTarget == toLowerCase(S.storeFilter)
      sources == [i \in 1..Len(S.games) |->
                    trim(toString(OrElse(S.games[i].source, Str(<<>>))))]
      NonEmpty(v) == v # <<>>
      Matches(stores) ==
        {i \in 1..Len(stores) : toLowerCase(stores[i]) = normalizedTarget}
      Keep(stores, matches) ==
        IF matches = {} THEN [S EXCEPT !.storeFilter = <<>>]
        ELSE [S EXCEPT !.storeFilter =
                stores[CHOOSE i \in matches : \A j \in matches : i <= j]]
      Select(stores) == Keep(stores, Matches(stores))
  IN IF normalizedTarget = <<>> THEN S
     ELSE Select(StableSort(localeCompare,
                            distinctFrom(SelectSeq(sources, NonEmpty), {})))

updateGenreFilterOptions(S) ==
  LET S1 == IF S.games = <<>> THEN [S EXCEPT !.genreFilter = <<>>] ELSE S
      normalizedTarget == toLowerCase(S1.genreFilter)
      GenresOf(g) == IF g.genres.t = "array" THEN g.genres.a ELSE <<>>
      hasUnknown == \E i \in 1..Len(S1.games) : GenresOf(S1.games[i]) = <<>>
      KeysOf(a) == {toLowerCase(toString(a[k])) :
                      k \in {k \in 1..Len(a) : Truthy(a[k])}}
      genreKeys == UNION {KeysOf(GenresOf(S1.games[i])) : i \in 1..Len(S1.games)}
  IN IF S1.genreFilter = <<>> THEN S1
     ELSE IF S1.genreFilter = UNKNOWN_GENRE_VALUE
       THEN (IF hasUnknown THEN S1 ELSE [S1 EXCEPT !.genreFilter = <<>>])
     ELSE IF normalizedTarget \in genreKeys THEN S1
     ELSE [S1 EXCEPT !.genreFilter = <<>>]

----------------------------------------------------------------------------
(* The persistence layer: the cache, the profile path, the save request *)

\* A fetch in flight.  phase is "sent" until the backend has handled it and
\* "done" once its response waits for the client; ok is response.ok.
Request(kind, path, list) ==
  [kind |-> kind, path |-> path, games |-> list, silent |-> FALSE,
   existing |-> NoGame, phase |-> "sent", ok |-> TRUE]

RECURSIVE jsonValue(_)
\* JSON.parse(JSON.stringify(v)): NaN becomes null, and so does undefined
\* inside an array; a field that is undefined is dropped, which reads back
\* as undefined
jsonValue(v) ==
  IF v = NaN THEN Null
  ELSE IF v.t = "array"
    THEN Arr([i \in 1..Len(v.a) |->
                IF v.a[i] = Undefined THEN Null ELSE jsonValue(v.a[i])])
  ELSE v

\* One record of the cache entry as JSON.parse reads it back; the capture
\* timestamp cachedAt is not modelled
jsonGame(game) ==
  [game EXCEPT !.title = jsonValue(@), !.platform = jsonValue(@),
               !.source = jsonValue(@), !.description = jsonValue(@),
               !.record_id = jsonValue(@), !.status = jsonValue(@),
               !.finish_count = jsonValue(@), !.finishCount = jsonValue(@),
               !.finish = jsonValue(@), !.rating = jsonValue(@),
               !.genres = jsonValue(@), !.gallery_urls = jsonValue(@)]

\* persistGameCache that keeps the old entry when the Library is empty
persistGameCache_KeepsWhenEmpty(S) ==
  IF S.games = <<>> THEN S
  ELSE [S EXCEPT !.cache = [i \in 1..Len(S.games) |-> jsonGame(S.games[i])]]

\* The entry is removed when the Library is empty, written otherwise;
\* localStorage is taken to accept the write
persistGameCache(S) ==
  IF S.games = <<>> THEN [S EXCEPT !.cache = <<>>]
  ELSE [S EXCEPT !.cache = [i \in 1..Len(S.games) |-> jsonGame(S.games[i])]]

persistProfilePath(S, path) ==
  [S EXCEPT !.profilePath = path, !.profilePathInput = path, !.storedPath = path]

\* The reduced projection saveProfile sends for one record; JSON.stringify
\* drops the fields that are undefined
ProfileEntry(game) ==
  RawGame(game.title, game.platform, game.source,
          Coalesce(game.record_id, Null), game.status, game.finish_count,
          Undefined, Undefined)

Projection(list) == [i \in 1..Len(list) |-> ProfileEntry(list[i])]

\* saveProfile sending the records whole instead of their projection
saveProfile_WholeRecords(S, path, silent) ==
  IF path = <<>> \/ S.games = <<>> THEN S
  ELSE LET S1 == IF silent THEN S
                 ELSE showStatus(S, Message("Saving profile...", 0), "info")
       IN [S1 EXCEPT !.net =
             Append(@, [Request("save", path, S.games) EXCEPT
                          !.silent = silent])]

\* saveProfile up to its await; it throws before any request when the path
\* or the Library is empty
saveProfile(S, path, silent) ==
  IF path = <<>> \/ S.games = <<>> THEN S
  ELSE LET S1 == IF silent THEN S
                 ELSE showStatus(S, Message("Saving profile...", 0), "info")
       IN [S1 EXCEPT !.net =
             Append(@, [Request("save", path, Projection(S.games)) EXCEPT
                          !.silent = silent])]

autoSaveProfile(S) ==
  IF S.profilePath = <<>> \/ S.games = <<>> THEN S
  ELSE saveProfile(S, S.profilePath, TRUE)

----------------------------------------------------------------------------
(* The Library as a JavaScript array.  held.list is what a reader sees in  *)
(* the array it took from state.games; held.alias tells whether state.games *)
(* still is that array.                                                     *)

\* state.games[index] = value; state.games = [...state.games]
assignThenCopy(S, index, value) ==
  [S EXCEPT !.games = [@ EXCEPT ![index] = value],
            !.held = IF S.held.alias
                       THEN [alias |-> FALSE,
                             list |-> [S.held.list EXCEPT ![index] = value]]
                       ELSE S.held]

\* state.games.splice(index, 1); state.games = [...state.games]
spliceThenCopy(S, index) ==
  [S EXCEPT !.games = SubSeq(@, 1, index - 1) \o SubSeq(@, index + 1, Len(@)),
            !.held = IF S.held.alias
                       THEN [alias |-> FALSE,
                             list |-> SubSeq(S.held.list, 1, index - 1)
                                      \o SubSeq(S.held.list, index + 1,
                                                Len(S.held.list))]
                       ELSE S.held]

\* state.games = list, a new array
replaceGames(S, list) ==
  [S EXCEPT !.games = list, !.held = [S.held EXCEPT !.alias = FALSE]]

----------------------------------------------------------------------------
(* The selection manager and the mutation entry point *)

\* toggleGameSelection that only ever adds the id
toggleGameSelection_AddOnly(S, gameId) ==
  IF \E i \in 1..Len(S.selectedIds) : S.selectedIds[i] = gameId
    THEN S
    ELSE [S EXCEPT !.selectedIds = Append(@, gameId)]

\* selectedIds is a JavaScript Set: its ids in insertion order
toggleGameSelection(S, gameId) ==
  LET Other(id) == id # gameId IN
  IF \E i \in 1..Len(S.selectedIds) : S.selectedIds[i] = gameId
    THEN [S EXCEPT !.selectedIds = SelectSeq(@, Other)]
    ELSE [S EXCEPT !.selectedIds = Append(@, gameId)]

clearSelections(S, silent) ==
  IF S.selectedIds = <<>> THEN S
  ELSE LET S1 == [S EXCEPT !.selectedIds = <<>>]
       IN IF silent THEN S1
          ELSE showStatus(S1, Message("Selection cleared.", 0), "info")

\* updateGameMetadata that runs the filter/render cycle even when deferred
updateGameMetadata_IgnoresDefer(S, gameId, field, value, message, silent, deferFilter, draws) ==
  LET index == findIndex(S.games, gameId)
      Store(merged) ==
        [assignThenCopy(S, index, merged) EXCEPT
           !.selection = IF @.__id = gameId THEN merged ELSE @]
      Refilter(S2) == applyFilter(S2, TRUE, draws)
      Report(S4) == IF message.text # "" THEN showStatus(S4, message, "info") ELSE S4
  IN IF index = 0 THEN S
     ELSE Report(autoSaveProfile(persistGameCache(Refilter(
            updateGenreFilterOptions(updateStoreFilterOptions(
              Store(normalizeGame([S.games[index] EXCEPT ![field] = value]))))))))

\* updateGameMetadata(gameId, { [field]: value }, { message, silent, deferFilter });
\* message is Message("", 0) when the caller passes none
updateGameMetadata(S, gameId, field, value, message, silent, deferFilter, draws) ==
  LET index == findIndex(S.games, gameId)
      Store(merged) ==
        [assignThenCopy(S, index, merged) EXCEPT
           !.selection = IF @.__id = gameId THEN merged ELSE @]
      shouldSilence == silent \/ message.text # ""
      Refilter(S2) ==
        IF deferFilter THEN S2 ELSE applyFilter(S2, shouldSilence, draws)
      Report(S4) == IF message.text # "" THEN showStatus(S4, message, "info") ELSE S4
  IN IF index = 0 THEN S
     ELSE Report(autoSaveProfile(persistGameCache(Refilter(
            updateGenreFilterOptions(updateStoreFilterOptions(
              Store(normalizeGame([S.games[index] EXCEPT ![field] = value]))))))))

\* The forEach of applyBulkStatus stopping after the first id
bulkUpdate_FirstOnly(R, ids, nextStatus) ==
  IF ids = <<>> THEN R
  ELSE [S |-> updateGameMetadata(R.S, Head(ids), "status", Str(nextStatus),
                                 Message("", 0), TRUE, TRUE, <<>>),
        updatedCount |-> IF findIndex(R.S.games, Head(ids)) # 0
                           THEN R.updatedCount + 1 ELSE R.updatedCount]

RECURSIVE bulkUpdate(_, _, _)
\* The forEach of applyBulkStatus over the ids: the state and updatedCount
bulkUpdate(R, ids, nextStatus) ==
  IF ids = <<>> THEN R
  ELSE bulkUpdate(
         [S |-> updateGameMetadata(R.S, Head(ids), "status", Str(nextStatus),
                                   Message("", 0), TRUE, TRUE, <<>>),
          updatedCount |-> IF findIndex(R.S.games, Head(ids)) # 0
                             THEN R.updatedCount + 1 ELSE R.updatedCount],
         Tail(ids), nextStatus)

\* applyBulkStatus with elements.selectionStatus.value = desired
applyBulkStatus(S, desired, draws) ==
  IF S.selectedIds = <<>>
    THEN showStatus(S, Message("Select at least one game first.", 0), "error")
  ELSE IF desired = <<>>
    THEN showStatus(S, Message("Choose a status before applying.", 0), "error")
  ELSE LET Report(R) ==
             IF R.updatedCount # 0
               THEN showStatus(applyFilter(R.S, TRUE, draws),
                               Message("Updated N game(s) to L.", R.updatedCount),
                               "info")
               ELSE showStatus(R.S, Message("No games were updated.", 0), "error")
       IN Report(bulkUpdate([S |-> S, updatedCount |-> 0], S.selectedIds,
                            sanitizeStatus(Str(desired)).s))

\* The change handler of the status control of the detail view
changeDetailStatus(S, value, draws) ==
  LET Refilter(S1) ==
        IF S1.statusFilter # <<>> THEN applyFilter(S1, TRUE, draws) ELSE S1
  IN IF S.selection = NoGame THEN S
     ELSE showStatus(
            Refilter(updateGameMetadata(S, S.selection.__id, "status",
                                        sanitizeStatus(Str(value)),
                                        Message("", 0), TRUE, TRUE, draws)),
            Message("Moved to L.", 0), "info")

\* The change handler of the finish-count input of the detail view
changeDetailFinishCount(S, input, draws) ==
  LET Update(value) ==
        updateGameMetadata(S, S.selection.__id, "finish_count", value,
                           Message("Updated finish count to N.", value.n),
                           FALSE, FALSE, draws)
  IN IF S.selection = NoGame THEN S ELSE Update(clampFinishCount(input))

----------------------------------------------------------------------------
(* Deleting a record *)

\* deleteGameById that leaves the id in the selection set
deleteGameById_KeepsSelection(S, gameId, draws) ==
  LET index == findIndex(S.games, gameId)
      Close(S1) ==
        IF S1.selection.__id = gameId THEN closeDetail(S1, TRUE) ELSE S1
  IN IF index = 0 THEN S
     ELSE autoSaveProfile(persistGameCache(showStatus(
            applyFilter(
              updateGenreFilterOptions(updateStoreFilterOptions(
                Close(spliceThenCopy(S, index)))),
              FALSE, draws),
            Message("T removed from the library.", 0), "info")))

\* deleteGameById without the test of the index: splice(-1, 1) removes the
\* last record when no record has the id
deleteGameById_NoIndexTest(S, gameId, draws) ==
  LET found == findIndex(S.games, gameId)
      index == IF found = 0 THEN Len(S.games) ELSE found
      Other(id) == id # gameId
      Close(S1) ==
        IF S1.selection.__id = gameId THEN closeDetail(S1, TRUE) ELSE S1
      Unselect(S2) == [S2 EXCEPT !.selectedIds = SelectSeq(@, Other)]
  IN IF index = 0 THEN S
     ELSE autoSaveProfile(persistGameCache(showStatus(
            applyFilter(
              updateGenreFilterOptions(updateStoreFilterOptions(
                Unselect(Close(spliceThenCopy(S, index))))),
              FALSE, draws),
            Message("T removed from the library.", 0), "info")))

deleteGameById(S, gameId, draws) ==
  LET index == findIndex(S.games, gameId)
      Other(id) == id # gameId
      Close(S1) ==
        IF S1.selection.__id = gameId THEN closeDetail(S1, TRUE) ELSE S1
      Unselect(S2) == [S2 EXCEPT !.selectedIds = SelectSeq(@, Other)]
  IN IF index = 0 THEN S
     ELSE autoSaveProfile(persistGameCache(showStatus(
            applyFilter(
              updateGenreFilterOptions(updateStoreFilterOptions(
                Unselect(Close(spliceThenCopy(S, index))))),
              FALSE, draws),
            Message("T removed from the library.", 0), "info")))

requestDeleteGame(S, gameId) ==
  [S EXCEPT !.pendingDeleteId = gameId, !.confirmDialogHidden = FALSE]

cancelDeleteGame(S) ==
  [S EXCEPT !.pendingDeleteId = NoId, !.confirmDialogHidden = TRUE]

confirmDeleteGame(S, draws) ==
  IF S.pendingDeleteId = NoId THEN S
  ELSE cancelDeleteGame(deleteGameById(S, S.pendingDeleteId, draws))

----------------------------------------------------------------------------
(* Ingestion *)

\* serializeGames numbering the records of every call from zero
serializeGames_ReusesIds(S, raws) ==
  [i \in 1..Len(raws) |-> [normalizeGame(raws[i]) EXCEPT !.__id = i - 1]]

\* serializeGames: the records normalized and given fresh ids; the id
\* `game-${Date.now()}-${gameIdCounter++}` is modelled by its counter
serializeGames(S, raws) ==
  [i \in 1..Len(raws) |->
     [normalizeGame(raws[i]) EXCEPT !.__id = S.gameIdCounter + i - 1]]

ingestGames(S, raws, skipAutoSave, append, draws) ==
  LET S0 == [S EXCEPT !.gameIdCounter = @ + Len(raws)]
      Store(serialized) ==
        IF append /\ S0.games # <<>>
          THEN replaceGames(S0, S0.games \o serialized)
          ELSE replaceGames(clearSelections(S0, TRUE), serialized)
      Reset(S1) == [S1 EXCEPT !.selection = NoGame, !.searchInput = <<>>]
      Save(S4) == IF skipAutoSave THEN S4 ELSE autoSaveProfile(S4)
  IN Save(persistGameCache(closeDetail(
       applyFilter(
         updateGenreFilterOptions(updateStoreFilterOptions(
           Reset(Store(serializeGames(S, raws))))),
         FALSE, draws),
       TRUE)))

----------------------------------------------------------------------------
(* The refinement workflow *)

\* A candidate of the search response; __matchIndex is set on the copy that
\* becomes pendingRefineSelection
Match(title, description, record_id) ==
  [title |-> title, description |-> description, record_id |-> record_id,
   __matchIndex |-> NoId]

\* pendingRefineSelection = null
NoMatch == Match(Undefined, Undefined, Undefined)

openRefineDialog(S, game) ==
  IF game = NoGame THEN S
  ELSE [S EXCEPT !.pendingRefineId = game.__id,
                 !.searchDialogHidden = FALSE,
                 !.searchInputField = toString(game.title)]

\* cancelRefineDialog that keeps the chosen candidate
cancelRefineDialog_KeepsSelection(S) ==
  [S EXCEPT !.pendingRefineId = NoId,
            !.pendingRefineMatches = <<>>,
            !.searchDialogHidden = TRUE,
            !.searchResults = <<>>,
            !.searchConfirmDisabled = TRUE]

cancelRefineDialog(S) ==
  [S EXCEPT !.pendingRefineId = NoId,
            !.pendingRefineSelection = NoMatch,
            !.pendingRefineMatches = <<>>,
            !.searchDialogHidden = TRUE,
            !.searchResults = <<>>,
            !.searchConfirmDisabled = TRUE]

renderSearchResults(S, matches) == [S EXCEPT !.searchResults = matches]

\* The click handler of the search result item at `index` (0-based)
clickSearchResult(S, index) ==
  [S EXCEPT !.pendingRefineSelection =
               [S.searchResults[index + 1] EXCEPT !.__matchIndex = index],
            !.searchConfirmDisabled = FALSE]

\* fetchRefineMatches that leaves the earlier choice in place
fetchRefineMatches_KeepsSelection(S) ==
  LET query == trim(S.searchInputField) IN
  IF query = <<>>
    THEN showStatus(S, Message("Enter a title to search.", 0), "error")
  ELSE [renderSearchResults(showStatus(S, Message("Searching IGDB...", 0), "info"),
                            <<>>) EXCEPT
          !.net = Append(@, Request("search", query, <<>>))]

\* fetchRefineMatches up to its await
fetchRefineMatches(S) ==
  LET query == trim(S.searchInputField) IN
  IF query = <<>>
    THEN showStatus(S, Message("Enter a title to search.", 0), "error")
  ELSE LET S1 == showStatus(S, Message("Searching IGDB...", 0), "info")
           S2 == [S1 EXCEPT !.searchConfirmDisabled = TRUE,
                            !.pendingRefineSelection = NoMatch]
       IN [renderSearchResults(S2, <<>>) EXCEPT
             !.net = Append(@, Request("search", query, <<>>))]

\* fetchRefineMatches after its await: the response carries `suggestions`
\* when ok, and an error message otherwise
fetchRefineMatchesResume(S, ok, suggestions) ==
  IF ok
    THEN LET S1 == [S EXCEPT !.pendingRefineMatches = suggestions]
         IN showStatus(renderSearchResults(S1, S1.pendingRefineMatches),
                       Message("Choose one of the N matches.", Len(suggestions)),
                       "info")
    ELSE renderSearchResults(
           [showStatus(S, Message("<error.message>", 0), "error") EXCEPT
              !.pendingRefineMatches = <<>>],
           <<>>)

\* confirmRefineDialog up to its await
confirmRefineDialog(S) ==
  IF S.pendingRefineId = NoId \/ S.pendingRefineSelection = NoMatch THEN S
  ELSE LET existing == findGame(S.games, S.pendingRefineId) IN
       IF existing = NoGame THEN cancelRefineDialog(S)
       ELSE [showStatus(S, Message("Refreshing metadata...", 0), "info") EXCEPT
               !.net = Append(@,
                  [Request("refine", toString(S.pendingRefineSelection.title),
                           << RawGame(S.pendingRefineSelection.title,
                                      existing.platform, existing.source,
                                      S.pendingRefineSelection.record_id,
                                      Undefined, Undefined, Undefined, Undefined) >>)
                     EXCEPT !.existing = existing])]

\* The replacement without the test that the target is still in the Library
applyRefinement_NoExistenceCheck(S, existing, serialized, draws) ==
  LET index == findIndex(S.games, existing.__id) IN
  autoSaveProfile(showStatus(
    openDetail(
      persistGameCache(
        applyFilter(
          updateGenreFilterOptions(updateStoreFilterOptions(
            [S EXCEPT !.games = IF index = 0 THEN Append(@, serialized)
                                ELSE [@ EXCEPT ![index] = serialized],
                      !.selection = serialized])),
          FALSE, draws)),
      serialized, TRUE),
    Message("T updated.", 0), "info"))

\* The replacement of the target by the record the backend returned
applyRefinement(S, existing, serialized, draws) ==
  LET index == findIndex(S.games, existing.__id) IN
  IF index = 0 THEN S
  ELSE autoSaveProfile(showStatus(
         openDetail(
           persistGameCache(
             applyFilter(
               updateGenreFilterOptions(updateStoreFilterOptions(
                 [assignThenCopy(S, index, serialized) EXCEPT
                    !.selection = serialized])),
               FALSE, draws)),
           serialized, TRUE),
         Message("T updated.", 0), "info"))

\* confirmRefineDialog after its await, the record keeping its fresh id
confirmRefineDialogResume_FreshId(S, existing, ok, updatedGame, draws) ==
  IF ok
    THEN cancelRefineDialog(
           applyRefinement(
             [S EXCEPT !.gameIdCounter = @ + 1], existing,
             serializeGames(S, <<updatedGame>>)[1], draws))
    ELSE cancelRefineDialog(showStatus(S, Message("<error.message>", 0), "error"))

\* confirmRefineDialog after its await, the dialog left open on failure
confirmRefineDialogResume_StaysOpen(S, existing, ok, updatedGame, draws) ==
  IF ok
    THEN cancelRefineDialog(
           applyRefinement(
             [S EXCEPT !.gameIdCounter = @ + 1], existing,
             [serializeGames(S, <<updatedGame>>)[1] EXCEPT !.__id = existing.__id],
             draws))
    ELSE showStatus(S, Message("<error.message>", 0), "error")

\* confirmRefineDialog after its await
confirmRefineDialogResume(S, existing, ok, updatedGame, draws) ==
  IF ok
    THEN cancelRefineDialog(
           applyRefinement(
             [S EXCEPT !.gameIdCounter = @ + 1], existing,
             [serializeGames(S, <<updatedGame>>)[1] EXCEPT !.__id = existing.__id],
             draws))
    ELSE cancelRefineDialog(showStatus(S, Message("<error.message>", 0), "error"))

----------------------------------------------------------------------------
(* The inputs the environment offers *)

\* The values typed into the finish-count input
FinishInputs == {Str(<<"2">>), Str(<<"-", "1">>), Str(<<"a">>), Frac(1, 5)}

SortModes == {"alphabetical", "score", "random"}

\* The queries typed into the search dialog
SearchQueries == {<<>>, <<" ">>, <<"b">>}

\* The candidate lists a search response carries
SuggestionLists ==
  { <<>>,
    << Match(Str(<<"b">>), Str(<<"d">>), Num(2)) >>,
    << Match(Str(<<"A">>), Str(<<>>), Num(1)),
       Match(Str(<<"b">>), Str(<<"d">>), Num(2)),
       Match(Str(<<"c">>), Str(<<"d">>), Num(3)) >> }

\* The records the backend may return for a create request: the requested
\* title, platform, source and record id with metadata added, the status
\* and finish count left out or in a raw form
CreateResponses(request) ==
  { [request EXCEPT !.description = Str(<<"d">>), !.rating = Frac(2, 5),
                    !.genres = Arr(<<Str(<<"G">>)>>)],
    [request EXCEPT !.status = Str(<<"FINISHED">>), !.finish_count = Str(<<"2">>),
                    !.genres = Arr(<<Str(<<"g">>), Null>>)] }

----------------------------------------------------------------------------
(* The other handlers of the page *)

\* setViewMode; it renders the sorted source without storing it
setViewMode(S, mode, draws) ==
  IF S.viewMode = mode THEN S
  ELSE LET S1 == [S EXCEPT !.viewMode = mode]
           source == IF S1.filtered # <<>> THEN S1.filtered ELSE S1.games
       IN IF source = <<>> THEN S1
          ELSE renderGrid(S1, sortGames(source, S1.sortMode, draws))

\* The change handler of elements.sortSelect
changeSort(S, mode, draws) ==
  LET S1 == [S EXCEPT !.sortMode =
               IF mode = "score" \/ mode = "random" THEN mode ELSE "alphabetical"]
  IN IF S1.games # <<>> THEN applyFilter(S1, FALSE, draws) ELSE S1

\* The change handler of elements.statusFilterSelect
changeStatusFilter(S, value, draws) ==
  applyFilter([S EXCEPT !.statusFilter = value], FALSE, draws)

\* The change handler of elements.storeFilterSelect
changeStoreFilter(S, value, draws) ==
  applyFilter([S EXCEPT !.storeFilter = value], FALSE, draws)

\* The change handler of elements.genreFilterSelect
changeGenreFilter(S, value, draws) ==
  applyFilter([S EXCEPT !.genreFilter = value], FALSE, draws)

\* The input handler of elements.searchInput
inputSearch(S, value, draws) ==
  LET S1 == [S EXCEPT !.searchInput = value]
  IN IF S1.games = <<>> THEN S1 ELSE applyFilter(S1, FALSE, draws)

\* loadProfile whose ingestion appends to the Library
loadProfileResume_Appends(S, path, ok, data, draws) ==
  IF ok
    THEN showStatus(ingestGames(persistProfilePath(S, path), data, TRUE, TRUE, draws),
                    Message("Profile loaded from P.", 0), "info")
    ELSE showStatus(S, Message("<error.message>", 0), "error")

\* loadProfile after its await: the response carries `data` when ok
loadProfileResume(S, path, ok, data, draws) ==
  IF ok
    THEN showStatus(ingestGames(persistProfilePath(S, path), data, TRUE, FALSE, draws),
                    Message("Profile loaded from P.", 0), "info")
    ELSE showStatus(S, Message("<error.message>", 0), "error")

\* loadSampleLibrary up to its await
loadSampleLibrary(S) ==
  [showStatus(S, Message("Fetching sample library...", 0), "info") EXCEPT
     !.net = Append(@, Request("sample", <<>>, <<>>))]

\* loadSampleLibrary after its await: the response carries `data` when ok.
\* serializeGames raises at the first element normalizeGame raises on, after
\* it has taken an id for each element before it; the catch shows the error.
loadSampleLibraryResume(S, ok, data, draws) ==
  LET raising == {i \in 1..Len(data) : normalizeGameRaises(data[i])}
      first == CHOOSE i \in raising : \A j \in raising : i <= j
  IN IF ~ok THEN showStatus(S, Message("<error.message>", 0), "error")
     ELSE IF raising # {}
       THEN showStatus([S EXCEPT !.gameIdCounter = @ + first - 1],
                       Message("<error.message>", 0), "error")
     ELSE showStatus(ingestGames(S, data, FALSE, FALSE, draws),
                     Message("Sample library loaded.", 0), "info")

\* handleUpload up to its await; file is the name of the chosen file, <<>>
\* when none is chosen
handleUpload(S, file) ==
  IF file = <<>>
    THEN showStatus(S, Message("Choose a .txt file that lists your games.", 0),
                    "error")
    ELSE [showStatus(S, Message("Loading library...", 0), "info") EXCEPT
            !.net = Append(@, Request("upload", file, <<>>))]

\* handleUpload after its await: the records of the response are appended
handleUploadResume(S, ok, data, draws) ==
  LET raising == {i \in 1..Len(data) : normalizeGameRaises(data[i])}
      first == CHOOSE i \in raising : \A j \in raising : i <= j
  IN IF ~ok THEN showStatus(S, Message("<error.message>", 0), "error")
     ELSE IF raising # {}
       THEN showStatus([S EXCEPT !.gameIdCounter = @ + first - 1],
                       Message("<error.message>", 0), "error")
     ELSE showStatus(ingestGames(S, data, FALSE, TRUE, draws),
                     Message("Loaded N games from F.", Len(data)), "info")

\* handleManualAdd without the test of the title
handleManualAdd_NoTitleCheck(S, titleInput) ==
  [showStatus(S, Message("Adding game...", 0), "info") EXCEPT
     !.net = Append(@,
        Request("create", trim(titleInput),
                << RawGame(Str(trim(titleInput)), Undefined, Undefined, Undefined,
                           Undefined, Undefined, Undefined, Undefined) >>))]

\* handleManualAdd up to its await; titleInput is the value of
\* elements.manualTitleInput, the platform and source inputs are empty
handleManualAdd(S, titleInput) ==
  LET title == trim(titleInput) IN
  IF title = <<>>
    THEN showStatus(S, Message("Enter a title before adding.", 0), "error")
    ELSE [showStatus(S, Message("Adding game...", 0), "info") EXCEPT
            !.net = Append(@,
               Request("create", title,
                       << RawGame(Str(title), Undefined, Undefined, Undefined,
                                  Undefined, Undefined, Undefined, Undefined) >>))]

\* handleManualAdd after its await: the record of the response is put first
handleManualAddResume(S, ok, game, draws) ==
  LET Store(gameWithId) ==
        replaceGames([S EXCEPT !.gameIdCounter = @ + 1], <<gameWithId>> \o S.games)
  IN IF ~ok THEN showStatus(S, Message("<error.message>", 0), "error")
     ELSE autoSaveProfile(showStatus(
            persistGameCache(
              applyFilter(
                updateGenreFilterOptions(updateStoreFilterOptions(
                  Store(serializeGames(S, <<game>>)[1]))),
                FALSE, draws)),
            Message("T added to your library.", 0), "info"))

\* elements.profilePathInput.value.trim() || ""
getProfilePathInput(S) == trim(S.profilePathInput)

\* loadProfile up to its await
loadProfile(S, path) ==
  IF path = <<>>
    THEN showStatus(S, Message("Enter a profile directory.", 0), "error")
    ELSE [showStatus(S, Message("Loading profile...", 0), "info") EXCEPT
            !.net = Append(@, Request("load", path, <<>>))]

\* deleteProfile up to its await, the path being non-empty
deleteProfile(S, path) ==
  [showStatus(S, Message("Deleting profile...", 0), "info") EXCEPT
     !.net = Append(@, Request("delete", path, <<>>))]

\* deleteProfile after its await
deleteProfileResume(S, ok, draws) ==
  IF ok
    THEN showStatus(
           [ingestGames(persistProfilePath(S, <<>>), <<>>, TRUE, FALSE, draws)
              EXCEPT !.cache = <<>>],
           Message("Profile deleted.", 0), "info")
    ELSE showStatus(S, Message("<error.message>", 0), "error")

\* The click handler of elements.profileLoadButton
clickProfileLoad(S) ==
  IF getProfilePathInput(S) = <<>>
    THEN showStatus(S, Message("Enter a profile directory.", 0), "error")
    ELSE loadProfile(S, getProfilePathInput(S))

\* The click handler of elements.profileSaveButton
clickProfileSave(S) ==
  LET path == IF getProfilePathInput(S) # <<>> THEN getProfilePathInput(S)
              ELSE S.profilePath
  IN IF path = <<>>
       THEN showStatus(S, Message("Enter a profile directory before saving.", 0),
                       "error")
       ELSE saveProfile(S, path, FALSE)

\* The click handler of elements.profileDeleteButton
clickProfileDelete(S) ==
  LET path == IF getProfilePathInput(S) # <<>> THEN getProfilePathInput(S)
              ELSE S.profilePath
  IN IF path = <<>>
       THEN showStatus(S, Message("Enter a profile directory before deleting.", 0),
                       "error")
       ELSE deleteProfile(S, path)

\* bootstrapProfile whose ingestion of the cache autosaves
bootstrapProfile_AutoSaves(S, draws) ==
  LET Request1(S0) ==
        IF S0.storedPath # <<>>
          THEN loadProfile(persistProfilePath(S0, S0.storedPath), S0.storedPath)
          ELSE S0
      Restore(S1) ==
        IF S1.cache # <<>>
          THEN showStatus(ingestGames(S1, S1.cache, FALSE, FALSE, draws),
                          Message("Loaded cached library.", 0), "info")
          ELSE S1
  IN [Restore(Request1(S)) EXCEPT !.booted = TRUE]

\* bootstrapProfile, run once when the script loads: the stored profile is
\* requested, then the cached library is ingested without a request
bootstrapProfile(S, draws) ==
  LET Request1(S0) ==
        IF S0.storedPath # <<>>
          THEN loadProfile(persistProfilePath(S0, S0.storedPath), S0.storedPath)
          ELSE S0
      Restore(S1) ==
        IF S1.cache # <<>>
          THEN showStatus(ingestGames(S1, S1.cache, TRUE, FALSE, draws),
                          Message("Loaded cached library.", 0), "info")
          ELSE S1
  IN [Restore(Request1(S)) EXCEPT !.booted = TRUE]

\* saveProfile whose failure is shown even when the save is silent
saveProfileResume_SurfacesFailure(S, path, silent, ok) ==
  IF ok
    THEN LET S1 == persistProfilePath(S, path)
         IN IF silent THEN S1
            ELSE showStatus(S1, Message("Profile saved.", 0), "info")
    ELSE showStatus(S, Message("<error.message>", 0), "error")

\* saveProfile after its await
saveProfileResume(S, path, silent, ok) ==
  IF ok
    THEN LET S1 == persistProfilePath(S, path)
         IN IF silent THEN S1
            ELSE showStatus(S1, Message("Profile saved.", 0), "info")
    ELSE IF silent THEN S
         ELSE showStatus(S, Message("<error.message>", 0), "error")

----------------------------------------------------------------------------
(* Steps.  Every step runs one handler, or one continuation of an async    *)
(* handler, to its next suspension point, and records it in `last`.        *)

\* The bounds of the specification: renders started, frames requested,
\* requests in flight, ids assigned
Within(S) ==
  /\ S.renderGeneration <= S.lim.gen
  /\ Len(S.rafQueue) <= S.lim.raf
  /\ Len(S.net) <= S.lim.net
  /\ S.gameIdCounter <= S.lim.ids

Step(S, op, n) ==
  /\ Within(S)
  /\ Becomes([S EXCEPT !.last = [op |-> op, n |-> n, text |-> <<>>]])

\* A step whose handler was given the text `text` (a status, a path)
StepWith(S, op, n, text) ==
  /\ Within(S)
  /\ Becomes([S EXCEPT !.last = [op |-> op, n |-> n, text |-> text]])

\* The draws of Math.random a handler may make while sorting
DrawsFor(S) ==
  IF S.sortMode = "random" THEN RandomDraws(Len(S.games)) ELSE {<<>>}

RemoveAt(s, i) == SubSeq(s, 1, i - 1) \o SubSeq(s, i + 1, Len(s))

\* The browser runs the oldest requested animation-frame callback
Frame ==
  /\ rafQueue # <<>>
  /\ LET task == Head(rafQueue)
         S1 == [State EXCEPT !.rafQueue = Tail(@)]
     IN Step(streamRender(S1, task.generation, task.games, task.queue),
             IF task.generation # renderGeneration THEN "frame:stale"
             ELSE IF task.queue # <<>> THEN "frame:batch"
             ELSE "frame:complete",
             task.generation)

\* A click on a card opens its detail view
CardClick(positions) ==
  \E i \in (1..Len(grid)) \cap positions :
    Step(openDetail(State, grid[i], FALSE), "openDetail", grid[i].__id)

CloseDetailClick ==
  /\ detailAfter # NoId
  /\ Step(closeDetail(State, TRUE), "closeDetail", 0)

ToggleSelect(positions) ==
  \E i \in (1..Len(grid)) \cap positions :
    Step(toggleGameSelection(State, grid[i].__id), "toggleGameSelection",
         grid[i].__id)

ClearSelectionClick ==
  /\ selectedIds # <<>>
  /\ Step(clearSelections(State, FALSE), "clearSelections", Len(selectedIds))

\* The Apply button of the selection bar, enabled while ids are selected
BulkApply(options) ==
  /\ selectedIds # <<>>
  /\ \E desired \in options, draws \in DrawsFor(State) :
       StepWith(applyBulkStatus(State, desired, draws),
                IF desired = <<>> THEN "applyBulkStatus:nostatus"
                ELSE "applyBulkStatus",
                Cardinality({i \in 1..Len(selectedIds) :
                               findIndex(games, selectedIds[i]) # 0}),
                desired)

StatusChange(options) ==
  /\ detailAfter # NoId
  /\ \E value \in options, draws \in DrawsFor(State) :
       Step(changeDetailStatus(State, value, draws), "changeDetailStatus", 0)

FinishChange ==
  /\ detailAfter # NoId
  /\ \E input \in FinishInputs, draws \in DrawsFor(State) :
       Step(changeDetailFinishCount(State, input, draws),
            "changeDetailFinishCount", 0)

RequestDelete(positions) ==
  \E i \in (1..Len(grid)) \cap positions :
    Step(requestDeleteGame(State, grid[i].__id), "requestDeleteGame",
         grid[i].__id)

CancelDelete ==
  /\ ~confirmDialogHidden
  /\ Step(cancelDeleteGame(State), "cancelDeleteGame", 0)

\* The confirm button of the delete dialog; `last` notes whether the record
\* was in the selection set
ConfirmDelete ==
  /\ ~confirmDialogHidden
  /\ \E draws \in DrawsFor(State) :
       StepWith(confirmDeleteGame(State, draws),
                IF findIndex(games, pendingDeleteId) # 0 THEN "confirmDeleteGame"
                ELSE "confirmDeleteGame:absent",
                pendingDeleteId,
                IF \E i \in 1..Len(selectedIds) : selectedIds[i] = pendingDeleteId
                  THEN <<"selected">> ELSE <<>>)

\* The options of elements.statusFilterSelect
StatusFilterOptions == StatusValues \cup {<<>>, WITHOUT_NOT_ALLOCATED}

StatusFilterChange(options) ==
  \E value \in options, draws \in DrawsFor(State) :
    /\ value # statusFilter
    /\ Step(changeStatusFilter(State, value, draws), "changeStatusFilter", 0)

StoreFilterChange(options) ==
  \E value \in options, draws \in DrawsFor(State) :
    /\ booted
    /\ value # storeFilter
    /\ Step(changeStoreFilter(State, value, draws), "changeStoreFilter", 0)

GenreFilterChange(options) ==
  \E value \in options, draws \in DrawsFor(State) :
    /\ booted
    /\ value # genreFilter
    /\ Step(changeGenreFilter(State, value, draws), "changeGenreFilter", 0)

\* The user edits the text of the search box
SearchInput(queries) ==
  \E value \in queries, draws \in DrawsFor(State) :
    /\ value # searchInput
    /\ Step(inputSearch(State, value, draws), "inputSearch", 0)

SortChange(modes) ==
  \E mode \in modes :
    /\ mode # sortMode
    /\ \E draws \in DrawsFor([State EXCEPT !.sortMode = mode]) :
         Step(changeSort(State, mode, draws), "changeSort", 0)

ViewModeClick ==
  \E mode \in {"grid", "list"}, draws \in DrawsFor(State) :
    /\ mode # viewMode
    /\ Step(setViewMode(State, mode, draws), "setViewMode", 0)

\* The Refine button of the detail view
OpenRefine ==
  /\ detailAfter # NoId
  /\ Step(openRefineDialog(State, selection), "openRefineDialog",
          selection.__id)

\* The user edits the query of the search dialog
TypeQuery(queries) ==
  /\ ~searchDialogHidden
  /\ \E value \in queries :
       /\ value # searchInputField
       /\ Step([State EXCEPT !.searchInputField = value], "typeQuery", 0)

SearchClick ==
  /\ ~searchDialogHidden
  /\ Step(fetchRefineMatches(State),
          IF trim(searchInputField) = <<>> THEN "fetchRefineMatches:empty"
          ELSE "fetchRefineMatches",
          0)

\* The response of a search request arrives
SearchResponse(lists) ==
  \E i \in 1..Len(net) :
    /\ net[i].kind = "search"
    /\ \E ok \in BOOLEAN, suggestions \in lists \cup {<<>>} :
         /\ ok \/ suggestions = <<>>
         /\ ~ok \/ suggestions \in lists
         /\ Step(fetchRefineMatchesResume([State EXCEPT !.net = RemoveAt(@, i)],
                                          ok, suggestions),
                 IF ok THEN "fetchRefineMatches:ok" ELSE "fetchRefineMatches:failed",
                 Len(suggestions))

\* A click on one of the candidates shown in the search dialog
SelectCandidate ==
  /\ ~searchDialogHidden
  /\ \E index \in 0..(Len(searchResults) - 1) :
       Step(clickSearchResult(State, index), "clickSearchResult", index)

ConfirmRefine ==
  /\ ~searchDialogHidden
  /\ ~searchConfirmDisabled
  /\ Step(confirmRefineDialog(State),
          IF pendingRefineId = NoId \/ pendingRefineSelection = NoMatch
            THEN "confirmRefineDialog:ignored"
          ELSE IF findGame(games, pendingRefineId) = NoGame
            THEN "confirmRefineDialog:gone"
          ELSE "confirmRefineDialog",
          pendingRefineId)

\* The response of the create/refine request of confirmRefineDialog arrives
RefineResponse ==
  \E i \in 1..Len(net) :
    /\ net[i].kind = "refine"
    /\ \E ok \in BOOLEAN, updatedGame \in CreateResponses(net[i].games[1]),
          draws \in DrawsFor(State) :
         Step(confirmRefineDialogResume([State EXCEPT !.net = RemoveAt(@, i)],
                                        net[i].existing, ok, updatedGame, draws),
              IF ~ok THEN "confirmRefineDialog:failed"
              ELSE IF findIndex(games, net[i].existing.__id) = 0
                THEN "confirmRefineDialog:stale"
              ELSE "confirmRefineDialog:ok",
              net[i].existing.__id)

CancelRefine ==
  /\ ~searchDialogHidden
  /\ Step(cancelRefineDialog(State), "cancelRefineDialog", 0)

\* The Load sample button
SampleClick ==
  /\ booted
  /\ Step(loadSampleLibrary(State), "loadSampleLibrary", 0)

\* The response of a sample request arrives
SampleResponse(lists) ==
  \E i \in 1..Len(net) :
    /\ net[i].kind = "sample"
    /\ \E ok \in BOOLEAN, data \in lists \cup {<<>>}, draws \in DrawsFor(State) :
         /\ ok \/ data = <<>>
         /\ Step(loadSampleLibraryResume([State EXCEPT !.net = RemoveAt(@, i)],
                                         ok, data, draws),
                 IF ~ok THEN "loadSampleLibrary:failed"
                 ELSE IF \E k \in 1..Len(data) : normalizeGameRaises(data[k])
                   THEN "loadSampleLibrary:raised"
                 ELSE "loadSampleLibrary:ok",
                 Len(data))

\* The upload form is submitted
UploadSubmit(files) ==
  /\ booted
  /\ \E file \in files :
       Step(handleUpload(State, file),
            IF file = <<>> THEN "handleUpload:nofile" ELSE "handleUpload", 0)

\* The response of an upload request arrives
UploadResponse(lists) ==
  \E i \in 1..Len(net) :
    /\ net[i].kind = "upload"
    /\ \E ok \in BOOLEAN, data \in lists \cup {<<>>}, draws \in DrawsFor(State) :
         /\ ok \/ data = <<>>
         /\ Step(handleUploadResume([State EXCEPT !.net = RemoveAt(@, i)],
                                    ok, data, draws),
                 IF ~ok THEN "handleUpload:failed"
                 ELSE IF \E k \in 1..Len(data) : normalizeGameRaises(data[k])
                   THEN "handleUpload:raised"
                 ELSE "handleUpload:ok",
                 Len(data))

\* The backend handles a save request: it stores the profile, or fails
ServerSave(outcomes) ==
  \E i \in 1..Len(net) :
    /\ net[i].kind = "save"
    /\ net[i].phase = "sent"
    /\ \E ok \in outcomes :
         Step([State EXCEPT
                 !.net = [@ EXCEPT ![i] = [@ EXCEPT !.phase = "done", !.ok = ok]],
                 !.remote = IF ok THEN [@ EXCEPT ![net[i].path] = net[i].games]
                            ELSE @],
              IF ok THEN "server:save" ELSE "server:save:failed", 0)

\* The response of a save request arrives
SaveResponse ==
  \E i \in 1..Len(net) :
    /\ net[i].kind = "save"
    /\ net[i].phase = "done"
    /\ StepWith(saveProfileResume([State EXCEPT !.net = RemoveAt(@, i)],
                                  net[i].path, net[i].silent, net[i].ok),
                IF net[i].ok THEN "saveProfile:ok" ELSE "saveProfile:failed", 0,
                IF net[i].silent THEN <<"silent">> ELSE <<>>)

\* The manual-add form is submitted
ManualSubmit(titles) ==
  /\ booted
  /\ \E title \in titles :
       Step(handleManualAdd(State, title),
            IF trim(title) = <<>> THEN "handleManualAdd:notitle"
            ELSE "handleManualAdd", 0)

\* The response of the create request of handleManualAdd arrives
ManualResponse ==
  \E i \in 1..Len(net) :
    /\ net[i].kind = "create"
    /\ \E ok \in BOOLEAN, game \in CreateResponses(net[i].games[1]),
          draws \in DrawsFor(State) :
         Step(handleManualAddResume([State EXCEPT !.net = RemoveAt(@, i)],
                                    ok, game, draws),
              IF ok THEN "handleManualAdd:ok" ELSE "handleManualAdd:failed", 0)

\* The user edits the profile directory input
TypeProfilePath(paths) ==
  /\ booted
  /\ \E value \in paths :
       /\ value # profilePathInput
       /\ Step([State EXCEPT !.profilePathInput = value], "typeProfilePath", 0)

ProfileLoadClick ==
  /\ booted
  /\ Step(clickProfileLoad(State),
          IF getProfilePathInput(State) = <<>> THEN "loadProfile:nopath"
          ELSE "loadProfile", 0)

\* The response of a load request arrives: the profile the backend holds
\* for the directory, or a failure
LoadResponse ==
  \E i \in 1..Len(net) :
    /\ net[i].kind = "load"
    /\ \E ok \in BOOLEAN, draws \in DrawsFor(State) :
         StepWith(loadProfileResume([State EXCEPT !.net = RemoveAt(@, i)],
                                    net[i].path, ok, remote[net[i].path], draws),
                  IF ok THEN "loadProfile:ok" ELSE "loadProfile:failed",
                  i, net[i].path)

ProfileSaveClick ==
  /\ booted
  /\ Step(clickProfileSave(State),
          IF getProfilePathInput(State) = <<>> /\ profilePath = <<>>
            THEN "saveProfile:nopath"
          ELSE IF games = <<>> THEN "saveProfile:nogames"
          ELSE "saveProfile", 0)

ProfileDeleteClick ==
  /\ booted
  /\ Step(clickProfileDelete(State),
          IF getProfilePathInput(State) = <<>> /\ profilePath = <<>>
            THEN "deleteProfile:nopath"
          ELSE "deleteProfile", 0)

\* The response of a delete request arrives
DeleteResponse ==
  \E i \in 1..Len(net) :
    /\ net[i].kind = "delete"
    /\ \E ok \in BOOLEAN, draws \in DrawsFor(State) :
         Step(deleteProfileResume([State EXCEPT !.net = RemoveAt(@, i)], ok, draws),
              IF ok THEN "deleteProfile:ok" ELSE "deleteProfile:failed", 0)

\* The script runs bootstrapProfile
Boot ==
  /\ ~booted
  /\ \E draws \in DrawsFor(State) :
       Step(bootstrapProfile(State, draws), "bootstrapProfile", Len(cache))

\* A reader takes the array state.games
Hold ==
  /\ booted
  /\ ~held.alias
  /\ games # <<>>
  /\ Step([State EXCEPT !.held = [alias |-> TRUE, list |-> games]], "hold", 0)

----------------------------------------------------------------------------
(* Initial states *)

NoStatus == [message |-> Message("", 0), error |-> FALSE]

\* No reader holds a reference to the Library
NoReader == [alias |-> FALSE, list |-> <<>>]

\* No function is under test
NoProbe == [arg |-> Null, outputs |-> <<>>, raised |-> FALSE]

Paths == {<<"p">>, <<"q">>}

\* The state once the script has run, with nothing cached and no profile
\* path stored; limits are the bounds of the specification
Fresh(limits) ==
  [games |-> <<>>, filtered |-> <<>>, selection |-> NoGame, viewMode |-> "grid",
   sortMode |-> "alphabetical", storeFilter |-> <<>>, statusFilter |-> <<>>,
   genreFilter |-> <<>>, selectedIds |-> <<>>, profilePath |-> <<>>,
   gameIdCounter |-> 0, renderGeneration |-> 0, pendingDetailId |-> NoId,
   pendingDeleteId |-> NoId, pendingRefineId |-> NoId,
   pendingRefineSelection |-> NoMatch, pendingRefineMatches |-> <<>>,
   searchInput |-> <<>>, grid |-> <<>>, detailAfter |-> NoId,
   detailGame |-> NoGame, loadingHidden |-> TRUE, status |-> NoStatus,
   searchDialogHidden |-> TRUE, confirmDialogHidden |-> TRUE,
   searchResults |-> <<>>, searchConfirmDisabled |-> TRUE,
   searchInputField |-> <<>>, profilePathInput |-> <<>>, cache |-> <<>>,
   storedPath |-> <<>>, rafQueue |-> <<>>, net |-> <<>>,
   remote |-> [p \in Paths |-> <<>>], booted |-> TRUE, lim |-> limits,
   probe |-> NoProbe, held |-> NoReader, rendered |-> <<>>, last |-> [op |-> "init", n |-> 0, text |-> <<>>]]

----------------------------------------------------------------------------
(* The normalizer as a function: applied to an input, then to its result *)

MaxApplications == 2

\* The shapes serializeGames may hand to normalizeGame: null, undefined, and
\* objects whose fields are absent, null, of the wrong type or out of range
NormalizeInputs ==
  {Null, Undefined}
  \cup { [RawGame(Str(<<"A">>), Null, Undefined, Null, st, fc, Null, gn)
           EXCEPT !.gallery_urls = gl, !.finishCount = alt] :
          st \in {Undefined, Null, Str(<<"Playing">>), Str(<<"x">>), Num(3)},
          fc \in {Undefined, Null, Str(<<"2">>), Num(-1), Frac(1, 5), Str(<<"a">>)},
          alt \in {Undefined, Num(3)},
          gn \in {Undefined, Str(<<"g">>), Arr(<<Str(<<"g">>), Null, Str(<<>>)>>)},
          gl \in {Undefined, Null, Arr(<<Str(<<>>), Str(<<"u">>)>>)} }

\* normalizeGame is called on the argument, or on the result of the call
\* before; the call returns a record or raises
NormalizeCall ==
  /\ ~probe.raised
  /\ Len(probe.outputs) < MaxApplications
  /\ LET Call(game) ==
           IF normalizeGameRaises(game)
             THEN [probe EXCEPT !.raised = TRUE]
             ELSE [probe EXCEPT !.outputs = Append(@, normalizeGame(game))]
     IN Step([State EXCEPT !.probe =
                 Call(IF probe.outputs = <<>> THEN probe.arg
                      ELSE probe.outputs[Len(probe.outputs)])],
             "normalizeGame", Len(probe.outputs) + 1)

InitNormalize ==
  \E game \in NormalizeInputs :
    Is([Fresh([gen |-> 0, raf |-> 0, net |-> 0, ids |-> 0])
          EXCEPT !.probe = [arg |-> game, outputs |-> <<>>, raised |-> FALSE]])

NextNormalize == NormalizeCall

SpecNormalize == InitNormalize /\ [][NextNormalize]_vars

----------------------------------------------------------------------------
(* Ingestion of what the backend returns, and edits of the ingested records *)

MaxGenIngest == 3
MaxRafIngest == 1
MaxNetIngest == 1
MaxIdsIngest == 4

\* The lists a sample response carries: records with fields absent, null,
\* of the wrong type or case, arrays with empty entries, and a null entry
IngestLists ==
  { << [RawGame(Str(<<"A">>), Null, Str(<<"S">>), Null, Str(<<"FINISHED">>),
                Str(<<"2">>), Null, Arr(<<Str(<<"g">>), Null>>))
          EXCEPT !.gallery_urls = Arr(<<Str(<<>>), Str(<<"u">>)>>)],
       RawGame(Str(<<"b">>), Str(<<"c">>), Undefined, Num(1), Str(<<"x">>),
               Num(-1), Num(2), Undefined) >>,
    << RawGame(Str(<<"c">>), Null, Null, Null, Undefined, Frac(1, 5), Null,
               Str(<<"g">>)) >>,
    << RawGame(Str(<<"A">>), Null, Null, Null, Null, Undefined, Null,
               Arr(<<>>)),
       Null >> }

InitIngest ==
  Is(Fresh([gen |-> MaxGenIngest, raf |-> MaxRafIngest, net |-> MaxNetIngest,
            ids |-> MaxIdsIngest]))

NextIngest ==
  \/ Frame
  \/ SampleClick
  \/ SampleResponse(IngestLists)
  \/ CardClick({1})
  \/ StatusChange({<<"BACKLOG">>, <<"x">>})
  \/ FinishChange

SpecIngest == InitIngest /\ [][NextIngest]_vars

----------------------------------------------------------------------------
(* The filter/sort engine: a Library of five records under every filter *)

MaxGenFilter == 5
MaxRafFilter == 1

\* Titles that differ in case only, stores that differ in case only, a
\* record without genres, rated and unrated records with a rating tie
FilterLibrary ==
  << [RawGame(Str(<<"b">>), Str(<<"c">>), Str(<<"S">>), Null, Str(<<"playing">>),
              Num(0), Num(2), Arr(<<Str(<<"G">>)>>))
        EXCEPT !.description = Str(<<"g">>)],
     RawGame(Str(<<"a">>), Null, Str(<<"s">>), Null, Undefined, Num(0), Null,
             Arr(<<>>)),
     RawGame(Str(<<"A">>), Str(<<"c">>), Str(<<"G">>), Null, Str(<<"finished">>),
             Num(1), Num(2), Arr(<<Str(<<"g">>), Str(<<"c">>)>>)),
     [RawGame(Str(<<"c">>), Null, Null, Null, Str(<<"playing">>), Num(0),
              Frac(2, 5), Undefined)
        EXCEPT !.description = Str(<<"B">>)],
     RawGame(Str(<<"a", "b">>), Str(<<"S">>), Str(<<"S">>), Null,
             Str(<<"backlog">>), Num(0), Undefined, Arr(<<Str(<<"g">>)>>)) >>

InitFilter ==
  Is(ingestGames(
       Fresh([gen |-> MaxGenFilter, raf |-> MaxRafFilter, net |-> 0,
              ids |-> Len(FilterLibrary)]),
       FilterLibrary, TRUE, FALSE, <<>>))

NextFilter ==
  \/ Frame
  \/ SearchInput({<<>>, <<" ", "B", " ">>, <<"a", " ", "c">>})
  \/ StoreFilterChange({<<>>, <<"s">>, <<"G">>})
  \/ StatusFilterChange({<<>>, <<"playing">>, WITHOUT_NOT_ALLOCATED})
  \/ GenreFilterChange({<<>>, <<"G">>, UNKNOWN_GENRE_VALUE})
  \/ SortChange({"alphabetical", "score"})

SpecFilter == InitFilter /\ [][NextFilter]_vars

----------------------------------------------------------------------------
(* The renderer under load: a Library that needs more than one batch *)

RenderGames == 26
MaxGenRender == 4
MaxRafRender == 3

RenderStatus(i) ==
  IF i > BATCH_SIZE + 1 THEN <<"finished">>
  ELSE IF i % 2 = 0 THEN <<"playing">> ELSE <<"Playing">>

\* The records the backend returned for the Library of this specification
RenderLibrary ==
  [i \in 1..RenderGames |->
     RawGame(Str(IF i % 3 = 0 THEN <<"b">> ELSE <<"A">>), Str(<<"c">>), Null,
             Null, Str(RenderStatus(i)), Num(0),
             IF i % 2 = 0 THEN Num(2) ELSE Null, Arr(<<>>))]

InitRender ==
  Is(ingestGames(
       Fresh([gen |-> MaxGenRender, raf |-> MaxRafRender, net |-> 0,
              ids |-> RenderGames]),
       RenderLibrary, TRUE, FALSE, <<>>))

NextRender ==
  \/ Frame
  \/ CardClick({1, BATCH_SIZE + 1})
  \/ StatusFilterChange({<<>>, <<"playing">>, <<"finished">>, <<"backlog">>})
  \/ ViewModeClick

SpecRender == InitRender /\ [][NextRender]_vars

----------------------------------------------------------------------------
(* Renders that run to their end: filter changes and view-mode switches    *)
(* restart the render, and the browser runs every animation-frame callback *)
(* that was requested.  The initial state and bounds are SpecRender's.     *)

NextRenderLive ==
  \/ Frame
  \/ StatusFilterChange({<<>>, <<"finished">>, <<"backlog">>})
  \/ ViewModeClick

SpecRenderLive == InitRender /\ [][NextRenderLive]_vars /\ WF_vars(Frame)

----------------------------------------------------------------------------
(* The selection manager and bulk edits on a small Library *)

MaxGen == 3
MaxRaf == 2

\* The records of the sample the Library starts from
SampleLibrary ==
  << RawGame(Str(<<"A">>), Undefined, Str(<<"S">>), Null, Undefined, Undefined,
             Null, Arr(<<>>)),
     RawGame(Str(<<"b">>), Str(<<"c">>), Str(<<"G">>), Num(1), Null, Undefined,
             Num(80), Arr(<<Str(<<"g">>)>>)),
     RawGame(Str(<<"c">>), Null, Str(<<"s">>), Num(2), Str(<<"Playing">>),
             Str(<<"2">>), Null, Undefined) >>

Init ==
  Is(ingestGames(
       Fresh([gen |-> MaxGen, raf |-> MaxRaf, net |-> 0, ids |-> 3]),
       SampleLibrary, FALSE, FALSE, <<>>))

Next ==
  \/ Frame
  \/ ToggleSelect({1, 2, 3})
  \/ ClearSelectionClick
  \/ CardClick({1})
  \/ BulkApply({<<>>, <<"finished">>})
  \/ StatusFilterChange({<<>>, <<"finished">>})

Spec == Init /\ [][Next]_vars

----------------------------------------------------------------------------
(* The refinement workflow, with deletes and overlapping requests *)

MaxGenRefine == 3
MaxRafRefine == 1
MaxNetRefine == 1
MaxIdsRefine == 3

\* The records the Library of this specification starts from
RefineLibrary ==
  << RawGame(Str(<<"A">>), Str(<<"c">>), Str(<<"S">>), Null, Undefined, Undefined,
             Null, Arr(<<>>)),
     RawGame(Str(<<"b">>), Null, Str(<<"G">>), Num(1), Str(<<"playing">>),
             Num(1), Num(3), Arr(<<Str(<<"g">>)>>)) >>

\* The candidate lists the search responses of this specification carry
RefineSuggestions ==
  { << Match(Str(<<"A">>), Str(<<>>), Num(1)),
       Match(Str(<<"b">>), Str(<<"d">>), Num(2)) >> }

\* The Library ingested, its first record put in the selection set and
\* the detail view of its second record opened
RefineStart(limits) ==
  openDetail(
    toggleGameSelection(
      ingestGames(Fresh(limits), RefineLibrary, TRUE, FALSE, <<>>), 0),
    [normalizeGame(RefineLibrary[2]) EXCEPT !.__id = 1], FALSE)

InitRefine ==
  Is(RefineStart([gen |-> MaxGenRefine, raf |-> MaxRafRefine,
                  net |-> MaxNetRefine, ids |-> MaxIdsRefine]))

NextRefine ==
  \/ Frame
  \/ OpenRefine
  \/ SearchClick
  \/ SearchResponse(RefineSuggestions)
  \/ SelectCandidate
  \/ ConfirmRefine
  \/ RefineResponse
  \/ CancelRefine
  \/ RequestDelete({2})
  \/ ConfirmDelete

SpecRefine == InitRefine /\ [][NextRefine]_vars

----------------------------------------------------------------------------
(* The search dialog with overlapping search requests *)

MaxNetSearch == 2

InitSearch ==
  Is(RefineStart([gen |-> MaxGenRefine, raf |-> MaxRafRefine,
                  net |-> MaxNetSearch, ids |-> MaxIdsRefine]))

NextSearch ==
  \/ Frame
  \/ OpenRefine
  \/ SearchClick
  \/ SearchResponse(RefineSuggestions)
  \/ SelectCandidate
  \/ CancelRefine

SpecSearch == InitSearch /\ [][NextSearch]_vars

----------------------------------------------------------------------------
(* Edits, refinements, deletes and ingestions on one Library *)

MaxGenEdit == 3
MaxRafEdit == 1
MaxNetEdit == 1
MaxIdsEdit == 4

\* The list an upload or sample response of this specification carries
EditLists ==
  { << RawGame(Str(<<"c">>), Null, Str(<<"S">>), Null, Undefined, Undefined,
               Null, Arr(<<>>)) >> }

\* The state of RefineStart, then the refine dialog opened on the record of
\* the detail view, a search answered with two candidates, and the second
\* candidate clicked
InitEdit ==
  LET Ready(S, suggestions) ==
        clickSearchResult(
          fetchRefineMatchesResume(
            [fetchRefineMatches(openRefineDialog(S, S.selection))
               EXCEPT !.net = <<>>],
            TRUE, suggestions),
          1)
  IN \E suggestions \in RefineSuggestions :
       Is(Ready(RefineStart([gen |-> MaxGenEdit, raf |-> MaxRafEdit,
                             net |-> MaxNetEdit, ids |-> MaxIdsEdit]),
                suggestions))

NextEdit ==
  \/ Frame
  \/ StatusChange({<<"finished">>})
  \/ FinishChange
  \/ BulkApply({<<"finished">>})
  \/ ConfirmRefine
  \/ RefineResponse
  \/ UploadSubmit({<<"f">>})
  \/ UploadResponse(EditLists)

SpecEdit == InitEdit /\ [][NextEdit]_vars

----------------------------------------------------------------------------
(* The selection set under toggles, deletes and a replacing ingestion,  *)
(* from the initial state and within the bounds of SpecRefine           *)

NextSelect ==
  \/ Frame
  \/ ToggleSelect({1, 2})
  \/ RequestDelete({1, 2})
  \/ ConfirmDelete
  \/ SampleClick
  \/ SampleResponse(EditLists)

SpecSelect == InitRefine /\ [][NextSelect]_vars

----------------------------------------------------------------------------
(* The persistence layer: a loaded profile, edits, and the save requests *)

MaxGenPersist == 3
MaxRafPersist == 1
MaxNetPersist == 2

PersistPath == <<"p">>

\* The profile the backend holds when the page loads it
PersistProfile ==
  << RawGame(Str(<<"A">>), Str(<<"c">>), Str(<<"S">>), Null,
             Str(<<"not_allocated">>), Num(0), Undefined, Undefined),
     RawGame(Str(<<"b">>), Null, Str(<<"G">>), Num(1), Str(<<"playing">>),
             Num(2), Undefined, Undefined) >>

InitPersist ==
  Is(loadProfileResume(
       [Fresh([gen |-> MaxGenPersist, raf |-> MaxRafPersist,
               net |-> MaxNetPersist, ids |-> 2])
          EXCEPT !.remote = [@ EXCEPT ![PersistPath] = PersistProfile]],
       PersistPath, TRUE, PersistProfile, <<>>))

NextPersist ==
  \/ Frame
  \/ CardClick({1, 2})
  \/ StatusChange({<<"finished">>, <<"backlog">>})
  \/ RequestDelete({1, 2})
  \/ CancelDelete
  \/ ConfirmDelete
  \/ ServerSave({TRUE})
  \/ SaveResponse

SpecPersist == InitPersist /\ [][NextPersist]_vars

----------------------------------------------------------------------------
(* Every mutation of the Library with a profile path set: the cache and   *)
(* the autosave requests                                                  *)

MaxGenMutate == 2
MaxRafMutate == 1
MaxNetMutate == 2
MaxIdsMutate == 3

\* The profile of InitPersist loaded, its first record put in the selection
\* set, the detail view of its second record opened, and the refine dialog
\* brought to the point where a candidate is chosen
InitMutate ==
  LET Loaded ==
        loadProfileResume(
          [Fresh([gen |-> MaxGenMutate, raf |-> MaxRafMutate,
                  net |-> MaxNetMutate, ids |-> MaxIdsMutate])
             EXCEPT !.remote = [@ EXCEPT ![PersistPath] = PersistProfile]],
          PersistPath, TRUE, PersistProfile, <<>>)
      Picked(S) == openDetail(toggleGameSelection(S, 0), S.games[2], FALSE)
      Ready(S, suggestions) ==
        clickSearchResult(
          fetchRefineMatchesResume(
            [fetchRefineMatches(openRefineDialog(S, S.selection))
               EXCEPT !.net = <<>>],
            TRUE, suggestions),
          1)
  IN \E suggestions \in RefineSuggestions :
       Is(Ready(Picked(Loaded), suggestions))

NextMutate ==
  \/ Frame
  \/ StatusChange({<<"finished">>})
  \/ FinishChange
  \/ BulkApply({<<"finished">>})
  \/ RequestDelete({1})
  \/ ConfirmDelete
  \/ ConfirmRefine
  \/ RefineResponse
  \/ UploadSubmit({<<"f">>})
  \/ UploadResponse(EditLists)
  \/ SampleClick
  \/ SampleResponse(EditLists)
  \/ ManualSubmit({<<"A">>})
  \/ ManualResponse

SpecMutate == InitMutate /\ [][NextMutate]_vars

----------------------------------------------------------------------------
(* Autosaves and explicit saves that fail, from the initial state and     *)
(* within the bounds of SpecPersist                                       *)

NextAutosave ==
  \/ Frame
  \/ CardClick({1})
  \/ StatusChange({<<"finished">>})
  \/ ProfileSaveClick
  \/ ServerSave({TRUE, FALSE})
  \/ SaveResponse

SpecAutosave == InitPersist /\ [][NextAutosave]_vars

----------------------------------------------------------------------------
(* A reader that took the array of the Library before a status edit or a  *)
(* delete, from the initial state and within the bounds of SpecRefine     *)

NextAlias ==
  \/ Frame
  \/ Hold
  \/ StatusChange({<<"finished">>, <<"backlog">>})
  \/ RequestDelete({1, 2})
  \/ ConfirmDelete

SpecAlias == InitRefine /\ [][NextAlias]_vars

----------------------------------------------------------------------------
(* Startup and profile loads: the script starts with or without a cache   *)
(* entry and a stored profile path                                        *)

MaxGenBoot == 3
MaxRafBoot == 1
MaxNetBoot == 2
MaxIdsBoot == 4

\* The cache entry an earlier session left: its Library as it was written
CachedLibrary ==
  [i \in 1..Len(RefineLibrary) |->
     jsonGame([normalizeGame(RefineLibrary[i]) EXCEPT !.__id = i - 1])]

\* The profiles the backend may hold for the directory
BootProfiles == {PersistProfile} \cup EditLists

InitBoot ==
  \E cached \in {<<>>, CachedLibrary}, stored \in {<<>>, PersistPath},
     profile \in BootProfiles :
    Is([Fresh([gen |-> MaxGenBoot, raf |-> MaxRafBoot, net |-> MaxNetBoot,
               ids |-> MaxIdsBoot])
          EXCEPT !.booted = FALSE, !.cache = cached, !.storedPath = stored,
                 !.remote = [@ EXCEPT ![PersistPath] = profile]])

NextBoot ==
  \/ Boot
  \/ Frame
  \/ ToggleSelect({1})
  \/ CardClick({1})
  \/ StoreFilterChange({<<"G">>})
  \/ GenreFilterChange({<<"g">>})
  \/ TypeProfilePath({<<"p">>})
  \/ ProfileLoadClick
  \/ LoadResponse

SpecBoot == InitBoot /\ [][NextBoot]_vars

----------------------------------------------------------------------------
(* Submissions that fail validation, and the profile buttons, from the    *)
(* initial state and within the bounds of SpecRefine                      *)

NextPreflight ==
  \/ Frame
  \/ UploadSubmit({<<>>})
  \/ ManualSubmit({<<>>, <<" ">>})
  \/ TypeProfilePath({<<>>, <<" ">>, <<"p">>})
  \/ ProfileLoadClick
  \/ LoadResponse
  \/ ProfileSaveClick
  \/ ServerSave({TRUE, FALSE})
  \/ SaveResponse
  \/ ProfileDeleteClick
  \/ DeleteResponse

SpecPreflight == InitRefine /\ [][NextPreflight]_vars

----------------------------------------------------------------------------
(* Overlapping searches whose responses carry different candidate lists,   *)
(* from the initial state and within the bounds of SpecSearch              *)

\* The candidate lists of the search responses: that of SpecSearch and one
\* that shares no candidate with it
OverlapSuggestions ==
  RefineSuggestions \cup { << Match(Str(<<"c">>), Str(<<>>), Num(3)) >> }

NextOverlap ==
  \/ Frame
  \/ OpenRefine
  \/ SearchClick
  \/ SearchResponse(OverlapSuggestions)
  \/ SelectCandidate
  \/ CancelRefine

SpecOverlap == InitSearch /\ [][NextOverlap]_vars

----------------------------------------------------------------------------
(* The active profile path: edits that autosave, then a load or a delete   *)
(* of the profile while the save is in flight, from the initial state and  *)
(* within the bounds of SpecPersist                                        *)

NextPath ==
  \/ Frame
  \/ CardClick({1})
  \/ StatusChange({<<"finished">>})
  \/ TypeProfilePath({<<"q">>})
  \/ ProfileLoadClick
  \/ LoadResponse
  \/ ProfileSaveClick
  \/ ProfileDeleteClick
  \/ DeleteResponse
  \/ ServerSave({TRUE, FALSE})
  \/ SaveResponse

SpecPath == InitPersist /\ [][NextPath]_vars

----------------------------------------------------------------------------
(* Operations that fail: every request of the page may be refused by the   *)
(* backend, from the initial state and within the bounds of SpecIngest     *)

NextFailure ==
  \/ Frame
  \/ ToggleSelect({1})
  \/ UploadSubmit({<<"f">>})
  \/ UploadResponse(EditLists)
  \/ SampleClick
  \/ SampleResponse(EditLists)
  \/ ManualSubmit({<<"A">>})
  \/ ManualResponse
  \/ TypeProfilePath({<<"p">>})
  \/ ProfileLoadClick
  \/ LoadResponse
  \/ ProfileSaveClick
  \/ ServerSave({TRUE, FALSE})
  \/ SaveResponse
  \/ ProfileDeleteClick
  \/ DeleteResponse

SpecFailure == InitIngest /\ [][NextFailure]_vars

----------------------------------------------------------------------------
(* Deletes that are requested, cancelled or confirmed while a sample       *)
(* replaces the Library, from the initial state and within the bounds of   *)
(* SpecRefine                                                              *)

NextDelete ==
  \/ Frame
  \/ RequestDelete({1, 2})
  \/ CancelDelete
  \/ ConfirmDelete
  \/ SampleClick
  \/ SampleResponse(EditLists)

SpecDelete == InitRefine /\ [][NextDelete]_vars

----------------------------------------------------------------------------
(* Claims *)

\* The cards shown are a prefix of the list of the latest renderGrid call,
\* made of whole batches unless it is the whole list
ShownIsBatchPrefix ==
  \E k \in 0..Len(rendered) :
    /\ grid = SubSeq(rendered, 1, k)
    /\ (k = Len(rendered) \/ k % BATCH_SIZE = 0)

\* A frame callback of a generation older than the current one adds no card
\* and does not run the completion step
StaleFrameIsInert ==
  (/\ rafQueue # <<>>
   /\ Head(rafQueue).generation # renderGeneration
   /\ last'.op \in {"frame:stale", "frame:batch", "frame:complete"})
  => /\ rafQueue' = Tail(rafQueue)
     /\ UNCHANGED << grid, loadingHidden, selection, detailAfter, detailGame,
                     pendingDetailId, renderGeneration, rendered >>

\* C1: once a newer render has started, no batch of an older generation is
\* added to the display and no older generation runs its completion step;
\* the displayed cards are always a prefix, in whole batches of at most
\* BATCH_SIZE, of the most recently started render's list.
C1_OnlyLatestRenderApplies ==
  /\ []ShownIsBatchPrefix
  /\ [][StaleFrameIsInert]_vars

\* A superseded generation's callback has just been dropped while the newer
\* render of a list of more than one batch shows its first batch only
C1_Witness ==
  /\ last.op = "frame:stale"
  /\ Len(rendered) > BATCH_SIZE
  /\ Len(grid) = BATCH_SIZE
  /\ rafQueue # <<>>

\* C2: bulk-applying a status to N >= 1 selected records advances the
\* render generation counter by exactly 1, whatever N is.
C2_BulkApplyRendersOnce ==
  [][(last'.op = "applyBulkStatus" /\ last'.n >= 1)
       => renderGeneration' = renderGeneration + 1]_vars

\* A bulk apply has just updated two or more records
C2_Witness == last.op = "applyBulkStatus" /\ last.n >= 2

\* The ids of the selection
Selected == {selectedIds[i] : i \in 1..Len(selectedIds)}

\* C3: after bulk-applying status S every selected record has status S, every
\* record outside the selection is unchanged, and the Library keeps its
\* length and order.
C3_BulkApplyFrame ==
  [][last'.op = "applyBulkStatus"
       => /\ Len(games') = Len(games)
          /\ \A i \in 1..Len(games) :
               /\ games'[i].__id = games[i].__id
               /\ games[i].__id \in Selected
                    => games'[i] = [games[i] EXCEPT !.status = Str(last'.text)]
               /\ games[i].__id \notin Selected => games'[i] = games[i]]_vars

\* A bulk apply has just changed two records and left a third one alone
C3_Witness ==
  /\ last.op = "applyBulkStatus"
  /\ last.n = 2
  /\ Len(games) = 3
  /\ \E i \in 1..3 : games[i].status # Str(last.text)

\* C4: with a profile path set, once every save request has been answered
\* successfully and nothing is in flight, the remote profile equals the
\* reduced projection of the Library.
C4_RemoteMatchesLibrary ==
  (profilePath # <<>> /\ net = <<>>) => remote[profilePath] = Projection(games)

\* The refinement requests in flight
RefineRequests(requests) ==
  {i \in 1..Len(requests) : requests[i].kind = "refine"}

\* C5: no step brings back an id the Library no longer holds, and a confirm,
\* or the response of a confirm, whose target has been deleted changes
\* neither the Library nor the view: the Library is what the delete left.
C5_DeletedTargetIsNotRefined ==
  [][/\ Ids(games') \subseteq Ids(games)
     /\ last'.op \in {"confirmRefineDialog:gone", "confirmRefineDialog:stale"}
          => /\ last'.n \notin Ids(games')
             /\ games' = games
             /\ filtered' = filtered
             /\ selection' = selection
             /\ cache' = cache
             /\ renderGeneration' = renderGeneration]_vars

\* The response of a confirm has just arrived for a target deleted meanwhile
C5_Witness ==
  /\ last.op = "confirmRefineDialog:stale"
  /\ last.n \notin Ids(games)
  /\ pendingRefineId = NoId

\* C6: a create/refine request is issued only by a confirm with a target set
\* and a candidate chosen, and it asks for that candidate; a candidate
\* becomes chosen only by a click on it; starting a search clears the choice
\* and disables confirmation.
C6_ConfirmNeedsExplicitSelection ==
  [][/\ Cardinality(RefineRequests(net')) > Cardinality(RefineRequests(net))
          => /\ last'.op = "confirmRefineDialog"
             /\ pendingRefineId # NoId
             /\ pendingRefineSelection # NoMatch
             /\ net'[Len(net')].games[1].title = pendingRefineSelection.title
             /\ net'[Len(net')].games[1].record_id = pendingRefineSelection.record_id
     /\ (pendingRefineSelection' # NoMatch
         /\ pendingRefineSelection' # pendingRefineSelection)
          => last'.op = "clickSearchResult"
     /\ last'.op = "fetchRefineMatches"
          => pendingRefineSelection' = NoMatch /\ searchConfirmDisabled']_vars

\* A confirm has just issued a request for the second candidate of the list
C6_Witness ==
  /\ last.op = "confirmRefineDialog"
  /\ RefineRequests(net) # {}
  /\ pendingRefineSelection.__matchIndex = 1

\* C7: a successful confirm puts the normalized returned record, under the
\* target's id, at the target's position; the Library keeps its length, the
\* other records and their order, and the selection set is unchanged.
C7_RefinePreservesIdentity ==
  [][last'.op = "confirmRefineDialog:ok"
       => /\ Len(games') = Len(games)
          /\ selectedIds' = selectedIds
          /\ \A i \in 1..Len(games) :
               /\ games'[i].__id = games[i].__id
               /\ games[i].__id # last'.n => games'[i] = games[i]
               /\ games[i].__id = last'.n
                    => \E k \in RefineRequests(net) :
                         \E returned \in CreateResponses(net[k].games[1]) :
                           /\ net[k].existing.__id = last'.n
                           /\ games'[i] = [normalizeGame(returned)
                                             EXCEPT !.__id = last'.n]]_vars

\* A successful confirm has just replaced the second record while another
\* record was in the selection set
C7_Witness ==
  /\ last.op = "confirmRefineDialog:ok"
  /\ Len(games) = 2
  /\ games[2].__id = last.n
  /\ games[2].description = Str(<<"d">>)
  /\ selectedIds # <<>>

\* C8 as amended: when the create/refine request fails the error is shown
\* and the workflow returns to Idle: the target, the candidate list and the
\* chosen candidate are discarded, the dialog is closed and confirmation
\* disabled; the Library is unchanged.
C8_FailedConfirmReturnsToIdle ==
  [][last'.op = "confirmRefineDialog:failed"
       => /\ status'.error
          /\ pendingRefineId' = NoId
          /\ pendingRefineMatches' = <<>>
          /\ pendingRefineSelection' = NoMatch
          /\ searchResults' = <<>>
          /\ searchDialogHidden'
          /\ searchConfirmDisabled'
          /\ games' = games]_vars

\* A confirm has just failed
C8_Witness ==
  /\ last.op = "confirmRefineDialog:failed"
  /\ status.error
  /\ searchDialogHidden

\* C8 as stated: when the create/refine request fails the error is shown and
\* the target, the candidate list and the chosen candidate are retained.
C8_FailedConfirmKeepsResults ==
  [][(last'.op = "confirmRefineDialog:failed" /\ ~searchDialogHidden)
       => /\ status'.error
          /\ pendingRefineId' = pendingRefineId
          /\ pendingRefineMatches' = pendingRefineMatches
          /\ pendingRefineSelection' = pendingRefineSelection
          /\ ~searchDialogHidden']_vars

\* C9: when a search request fails the candidate list is empty, nothing is
\* chosen, confirmation is disabled, the error is shown and the target kept.
C9_FailedSearchClearsChoice ==
  [][last'.op = "fetchRefineMatches:failed"
       => /\ status'.error
          /\ pendingRefineMatches' = <<>>
          /\ searchResults' = <<>>
          /\ pendingRefineSelection' = NoMatch
          /\ searchConfirmDisabled'
          /\ pendingRefineId' = pendingRefineId]_vars

\* C10: cancel, from any state in which the dialog is open, discards the
\* candidate list and the chosen candidate, forgets the target, disables
\* confirmation and closes the dialog, and leaves the Library alone.
C10_CancelReturnsToIdle ==
  [][last'.op = "cancelRefineDialog"
       => /\ pendingRefineId' = NoId
          /\ pendingRefineSelection' = NoMatch
          /\ pendingRefineMatches' = <<>>
          /\ searchResults' = <<>>
          /\ searchConfirmDisabled'
          /\ searchDialogHidden'
          /\ games' = games
          /\ filtered' = filtered]_vars

\* A cancel has just run; the step before it a candidate was chosen
C10_Witness ==
  /\ last.op = "cancelRefineDialog"
  /\ pendingRefineId = NoId
  /\ searchDialogHidden
  /\ searchResults = <<>>

\* The most recently started render generation still has a frame callback
\* waiting: its batch loop has not finished
LatestInFlight ==
  \E i \in 1..Len(rafQueue) : rafQueue[i].generation = renderGeneration

\* C11: the loading indicator is visible exactly while the batch loop of the
\* most recently started render generation has not finished, it is hidden
\* when the latest render was of an empty list, and the callback of a
\* superseded generation never changes it.
C11_LoadingShownWhileLatestRenders ==
  /\ [](loadingHidden <=> ~LatestInFlight)
  /\ [](rendered = <<>> => loadingHidden)
  /\ [][last'.op = "frame:stale" => loadingHidden' = loadingHidden]_vars

\* A superseded generation's callback has just run while the newer render
\* is still in flight, and the indicator is still visible
C11_Witness ==
  /\ last.op = "frame:stale"
  /\ LatestInFlight
  /\ ~loadingHidden

\* C12: when the final frame of the current render generation runs, a
\* selected record whose id is in the rendered list has its detail view open
\* and stays selected; one whose id is absent has its detail view closed and
\* the detail selection cleared.
C12_DetailFollowsRenderedList ==
  [][last'.op = "frame:complete"
       => IF selection # NoGame /\ selection.__id \in Ids(rendered)
            THEN /\ detailAfter' = selection.__id
                 /\ detailGame'.__id = selection.__id
                 /\ selection' = selection
            ELSE /\ detailAfter' = NoId
                 /\ selection' = NoGame]_vars

\* The final frame of a render of more than one batch has just reopened the
\* detail view of the selected record
C12_Witness ==
  /\ last.op = "frame:complete"
  /\ Len(rendered) > BATCH_SIZE
  /\ selection # NoGame
  /\ detailAfter = selection.__id

\* C13: normalizeGame returns a record for every input shape, null and
\* absent input included, without raising, and applying it to its own
\* result gives that result again.
C13_NormalizeTotalIdempotent ==
  /\ ~probe.raised
  /\ \A i \in 2..Len(probe.outputs) : probe.outputs[i] = probe.outputs[1]

\* C14: every record of the Library has a status among the five status
\* values, a finish_count that is a non-negative integer, and gallery and
\* genre arrays that are not null and hold no falsy entry.
C14_LibraryRecordsAreCanonical ==
  \A i \in 1..Len(games) :
    /\ games[i].status.t = "string"
    /\ games[i].status.s \in StatusValues
    /\ games[i].finish_count.t = "number"
    /\ games[i].finish_count.n >= 0
    /\ games[i].finish_count.f = 0
    /\ games[i].genres.t = "array"
    /\ \A k \in 1..Len(games[i].genres.a) : Truthy(games[i].genres.a[k])
    /\ games[i].gallery_urls.t = "array"
    /\ \A k \in 1..Len(games[i].gallery_urls.a) :
         Truthy(games[i].gallery_urls.a[k])

\* The handlers that end by running the filter on the Library
FilterOps ==
  {"inputSearch", "changeStoreFilter", "changeStatusFilter",
   "changeGenreFilter", "changeSort"}

\* The text of an optional field: empty when the field is null or absent
FieldText(value) == IF IsNullish(value) THEN <<>> ELSE toString(value)

\* The four tests of the filter on one record
QueryTest(game, query) ==
  \/ toLowerCase(trim(query)) = <<>>
  \/ includes(toLowerCase(FieldText(game.title) \o <<" ">>
                          \o FieldText(game.platform) \o <<" ">>
                          \o FieldText(game.source) \o <<" ">>
                          \o FieldText(game.description)),
              toLowerCase(trim(query)))

StoreTest(game, store) ==
  store = <<>> \/ toLowerCase(FieldText(game.source)) = toLowerCase(store)

StatusTest(game, wanted) ==
  \/ wanted = <<>>
  \/ game.status.s = wanted
  \/ wanted = WITHOUT_NOT_ALLOCATED /\ game.status.s # DEFAULT_STATUS

GenreTest(game, genre) ==
  \/ genre = <<>>
  \/ \E k \in 1..Len(game.genres.a) :
       toLowerCase(game.genres.a[k].s) = toLowerCase(genre)
  \/ genre = UNKNOWN_GENRE_VALUE /\ game.genres.a = <<>>

\* C15: after a filter runs, the visible list holds a record of the Library
\* if and only if the record passes the query test, the store test, the
\* status test and the genre test, and holds it once.
C15_FilterKeepsExactlyTheMatches ==
  [][last'.op \in FilterOps
       => /\ \A i \in 1..Len(games') :
               (\E k \in 1..Len(filtered') : filtered'[k] = games'[i])
               <=> /\ QueryTest(games'[i], searchInput')
                   /\ StoreTest(games'[i], storeFilter')
                   /\ StatusTest(games'[i], statusFilter')
                   /\ GenreTest(games'[i], genreFilter')
          /\ \A k \in 1..Len(filtered') :
               /\ \E i \in 1..Len(games') : filtered'[k] = games'[i]
               /\ \A j \in 1..Len(filtered') :
                    filtered'[j].__id = filtered'[k].__id => j = k]_vars

\* A filter has just run with a query, a store, a status and a genre all
\* set, and kept some records but not all
C15_Witness ==
  /\ last.op \in FilterOps
  /\ trim(searchInput) # <<>>
  /\ storeFilter # <<>>
  /\ statusFilter # <<>>
  /\ genreFilter # <<>>
  /\ filtered # <<>>
  /\ Len(filtered) < Len(games)

\* The title a record is sorted by
TitleOf(game) == IF Truthy(game.title) THEN game.title.s ELSE <<>>

\* C16: under alphabetical sort the visible list is in ascending order of
\* title, compared without regard to case, and records whose titles compare
\* equal are in their Library order; the list is thereby a function of the
\* Library and the filters.
C16_AlphabeticalSortIsStable ==
  [][(last'.op \in FilterOps /\ sortMode' = "alphabetical")
       => \A i, j \in 1..Len(filtered') :
            i < j =>
              /\ localeCompare(TitleOf(filtered'[i]), TitleOf(filtered'[j])) <= 0
              /\ toLowerCase(TitleOf(filtered'[i])) = toLowerCase(TitleOf(filtered'[j]))
                   => findIndex(games', filtered'[i].__id)
                        < findIndex(games', filtered'[j].__id)]_vars

\* A filter has just run under alphabetical sort and shows, among others,
\* two records whose titles differ in case only
C16_Witness ==
  /\ last.op \in FilterOps
  /\ sortMode = "alphabetical"
  /\ Len(filtered) >= 3
  /\ \E i, j \in 1..Len(filtered) :
       /\ i < j
       /\ filtered[i].title # filtered[j].title
       /\ toLowerCase(filtered[i].title.s) = toLowerCase(filtered[j].title.s)

\* A record has a rating
Rated(game) == game.rating.t = "number"

\* The rating of a rated record, in tenths
Tenths(game) == 10 * game.rating.n + game.rating.f

\* C17: under score sort the visible list is in descending order of rating,
\* every record without a rating comes after every record with one, and
\* records with equal ratings, or both without, are in alphabetical order of
\* title.
C17_ScoreSortOrder ==
  [][(last'.op \in FilterOps /\ sortMode' = "score")
       => \A i, j \in 1..Len(filtered') :
            i < j =>
              /\ Rated(filtered'[j]) => Rated(filtered'[i])
              /\ (Rated(filtered'[i]) /\ Rated(filtered'[j]))
                   => Tenths(filtered'[i]) >= Tenths(filtered'[j])
              /\ \/ Rated(filtered'[i]) # Rated(filtered'[j])
                 \/ Rated(filtered'[i]) /\ Tenths(filtered'[i]) # Tenths(filtered'[j])
                 \/ localeCompare(TitleOf(filtered'[i]), TitleOf(filtered'[j])) <= 0]_vars

\* A filter has just run under score sort and shows rated records, two of
\* them with the same rating, and unrated ones
C17_Witness ==
  /\ last.op \in FilterOps
  /\ sortMode = "score"
  /\ \E i, j \in 1..Len(filtered) :
       /\ i < j
       /\ Rated(filtered[i]) /\ Rated(filtered[j])
       /\ Tenths(filtered[i]) = Tenths(filtered[j])
  /\ \E i, j \in 1..Len(filtered) :
       i < j /\ ~Rated(filtered[i]) /\ ~Rated(filtered[j])

\* The ids the selection set of the state S holds
SelectedIn(S) == {S.selectedIds[i] : i \in 1..Len(S.selectedIds)}

\* C20: in every state, toggling an id twice gives back the selection set
\* the state has; one toggle flips the membership of that id and of no
\* other, and the set never holds an id twice.
C20_ToggleTwiceRestores ==
  /\ [](\A id \in Ids(games) :
          SelectedIn(toggleGameSelection(toggleGameSelection(State, id), id))
            = Selected)
  /\ [][last'.op = "toggleGameSelection"
          => /\ Selected' = (Selected \ {last'.n}) \cup ({last'.n} \ Selected)
             /\ Cardinality(Selected') = Len(selectedIds')]_vars

\* A toggle has just removed one id from a selection that holds another
C20_Witness ==
  /\ last.op = "toggleGameSelection"
  /\ last.n \notin Selected
  /\ Selected # {}

\* No two records of the Library have the same id
UniqueIds ==
  \A i, j \in 1..Len(games) : games[i].__id = games[j].__id => i = j

\* The edits of a record in place: a status edit, a finish-count edit, a
\* bulk apply, a refinement
EditOps ==
  {"changeDetailStatus", "changeDetailFinishCount", "applyBulkStatus",
   "confirmRefineDialog:ok"}

\* The steps that ingest records
IngestOps == {"loadSampleLibrary:ok", "handleUpload:ok"}

\* C18: the ids of the Library are pairwise distinct in every state; a
\* status edit, a finish-count edit, a bulk apply and a refinement leave the
\* id at every position as it was; an id the Library did not hold appears
\* only by an ingestion, which takes it fresh from the counter.
C18_IdsUniqueAndStable ==
  /\ []UniqueIds
  /\ [][/\ (last'.op \in EditOps
              => /\ Len(games') = Len(games)
                 /\ \A i \in 1..Len(games) : games'[i].__id = games[i].__id)
         /\ (~(Ids(games') \subseteq Ids(games))
              => /\ last'.op \in IngestOps
                 /\ \A id \in Ids(games') \ Ids(games) :
                      gameIdCounter <= id /\ id < gameIdCounter')]_vars

\* An upload has just appended a record to a Library one of whose records
\* had been refined
C18_Witness ==
  /\ last.op = "handleUpload:ok"
  /\ Len(games) = 3
  /\ games[2].description = Str(<<"d">>)
  /\ gameIdCounter = 4

\* C19: the selection set holds only ids of Library records in every
\* state; deleting a record takes exactly its id out of the set; an
\* ingestion that replaces the Library empties the set.
C19_SelectionWithinLibrary ==
  /\ [](Selected \subseteq Ids(games))
  /\ [][/\ (last'.op = "confirmDeleteGame"
              => Selected' = Selected \ {last'.n})
         /\ (last'.op = "loadSampleLibrary:ok" => selectedIds' = <<>>)]_vars

\* A selected record has just been deleted while another stays selected
C19_Witness ==
  /\ last.op = "confirmDeleteGame"
  /\ last.text = <<"selected">>
  /\ last.n \notin Selected
  /\ Selected # {}

\* C21: clear() empties the selection set and reports the count of ids it
\* removed; on an already empty selection it changes nothing and reports
\* nothing.
C21_ClearReportsCountRemoved ==
  /\ [](selectedIds = <<>> => clearSelections(State, FALSE) = State)
  /\ [][last'.op = "clearSelections"
          => /\ selectedIds' = <<>>
             /\ status'.message.arg = Len(selectedIds)]_vars

MutationOps ==
  {"changeDetailStatus", "changeDetailFinishCount", "applyBulkStatus",
   "confirmDeleteGame", "handleManualAdd:ok", "confirmRefineDialog:ok",
   "handleUpload:ok", "loadSampleLibrary:ok"}

\* The steps that take a response out of the requests in flight
ResponseOps ==
  {"handleManualAdd:ok", "confirmRefineDialog:ok", "handleUpload:ok",
   "loadSampleLibrary:ok"}

\* The step ends with a new request in flight, the last one, that saves the
\* projection of the Library as the step leaves it to the profile path
AutosaveIssued ==
  /\ Len(net') > Len(net) - (IF last'.op \in ResponseOps THEN 1 ELSE 0)
  /\ net'[Len(net')].kind = "save"
  /\ net'[Len(net')].silent
  /\ net'[Len(net')].path = profilePath
  /\ Len(net'[Len(net')].games) = Len(games')
  /\ \A i \in 1..Len(games') :
       net'[Len(net')].games[i] =
         RawGame(games'[i].title, games'[i].platform, games'[i].source,
                 Coalesce(games'[i].record_id, Null), games'[i].status,
                 games'[i].finish_count, Undefined, Undefined)

C27_ViewDerivedFromLibrary ==
  [][last'.op \in MutationOps \cup FilterOps /\ sortMode' # "random"
       => filtered' = sortGames(filterGames(games', searchInput', storeFilter',
                                            statusFilter', genreFilter'),
                                sortMode', <<>>)]_vars

\* C24: an autosave failure is never surfaced: when an autosave request
\* fails, the status message, the Library, the selection, the cache and the
\* active profile path are unchanged, and no retry is issued (the failed
\* request leaves the requests in flight and none is added).
C24_AutosaveFailureIsSilent ==
  [][last'.op = "saveProfile:failed" /\ last'.text = <<"silent">>
       => /\ status' = status
          /\ games' = games
          /\ selectedIds' = selectedIds
          /\ selection' = selection
          /\ cache' = cache
          /\ profilePath' = profilePath
          /\ storedPath' = storedPath
          /\ \E i \in 1..Len(net) :
               net' = SubSeq(net, 1, i - 1) \o SubSeq(net, i + 1, Len(net))]_vars

C24_Witness ==
  /\ last.op = "saveProfile:failed"
  /\ last.text = <<"silent">>
  /\ status.message.text = "Moved to L."

\* C28: every mutation of the Library replaces the list reference rather
\* than mutating in place: a list obtained as the Library before a status
\* edit, delete or refine confirm has the same length and the same elements
\* afterwards.
C28_OldListUntouched ==
  [][held.alias /\ last'.op \in {"changeDetailStatus", "confirmDeleteGame",
                                  "confirmRefineDialog:ok"}
       => /\ Len(held'.list) = Len(held.list)
          /\ held'.list = held.list]_vars

\* Some record of the list passes the store test, or the genre test, of the
\* filter engine for the value
StoreSupported(list, value) == \E i \in 1..Len(list) : StoreTest(list[i], value)
GenreSupported(list, value) == \E i \in 1..Len(list) : GenreTest(list[i], value)

\* C25: a successful profile load performs a replace ingestion: afterwards
\* the Library consists exactly of the normalized loaded records in response
\* order with fresh ids (no previous record remains), the selection set is
\* empty, the detail selection is cleared, the store and genre filter values
\* that no loaded record supports are reset, and the load issues no autosave.
C25_ProfileLoadReplaces ==
  [][last'.op = "loadProfile:ok"
       => /\ Len(games') = Len(remote[last'.text])
          /\ \A i \in 1..Len(games') :
               games'[i] = [normalizeGame(remote[last'.text][i])
                              EXCEPT !.__id = gameIdCounter + i - 1]
          /\ Ids(games') \cap Ids(games) = {}
          /\ selectedIds' = <<>>
          /\ selection' = NoGame
          /\ detailAfter' = NoId
          /\ (storeFilter' # <<>> => StoreSupported(games', storeFilter'))
          /\ (~StoreSupported(games', storeFilter) => storeFilter' = <<>>)
          /\ (genreFilter' # <<>> => GenreSupported(games', genreFilter'))
          /\ (~GenreSupported(games', genreFilter) => genreFilter' = <<>>)
          /\ profilePath' = last'.text
          /\ Len(net') = Len(net) - 1
          /\ \A k \in 1..Len(net') : net'[k].kind # "save"]_vars

\* A load has replaced an earlier Library while a filter was set
C25_Witness ==
  /\ last.op = "loadProfile:ok"
  /\ games # <<>>
  /\ gameIdCounter > Len(games)
  /\ renderGeneration = MaxGenBoot

\* The submissions and clicks that fail validation
PreflightOps ==
  {"handleUpload:nofile", "handleManualAdd:notitle", "loadProfile:nopath",
   "saveProfile:nopath", "deleteProfile:nopath"}

\* C26: pre-flight validation errors (no file chosen for upload, empty
\* manual-add title, empty profile directory path) are rejected before any
\* request: no backend request is issued, the Library, selection and cache
\* are unchanged, and an error status message is reported immediately.
C26_PreflightRejected ==
  [][last'.op \in PreflightOps
       => /\ net' = net
          /\ games' = games
          /\ selectedIds' = selectedIds
          /\ selection' = selection
          /\ cache' = cache
          /\ status'.error
          /\ status'.message.text # ""]_vars

C26_Witness ==
  /\ last.op = "handleManualAdd:notitle"
  /\ status.error
  /\ games # <<>>
  /\ selectedIds # <<>>

\* The Library is the cache entry ingested, and it is being rendered
RestoredFromCache ==
  /\ Len(games') = Len(cache)
  /\ \A i \in 1..Len(cache) :
       games'[i] = [normalizeGame(cache[i]) EXCEPT !.__id = i - 1]
  /\ rendered' = filtered'
  /\ Len(filtered') = Len(cache)
  /\ grid' # <<>>

\* C29 as stated: on restart with a non-empty cached library, startup
\* populates the Library from the cache and renders it, and issues no
\* backend request.
C29_StartupFromCacheWithoutBackend ==
  [][last'.op = "bootstrapProfile" /\ cache # <<>>
       => RestoredFromCache /\ net' = <<>>]_vars

\* C29 as amended: on restart with a non-empty cached library, startup
\* populates the Library from the cache and renders it without a save or
\* autosave request; the only backend request startup issues is the load of
\* the stored profile, and only when a profile path is stored.
C29_StartupFromCacheOnlyLoadsProfile ==
  [][last'.op = "bootstrapProfile" /\ cache # <<>>
       => /\ RestoredFromCache
          /\ net' = IF storedPath = <<>> THEN <<>>
                    ELSE << Request("load", storedPath, <<>>) >>]_vars

C29_Witness ==
  /\ last.op = "bootstrapProfile"
  /\ last.n > 0
  /\ Len(games) = last.n
  /\ profilePath # <<>>
  /\ Len(net) = 1

\* C30: on startup the UI automatically fetches the sample library: with no
\* cache entry and no stored profile path, startup issues a sample-fetch
\* request without user interaction (after which the Library would come to
\* hold the sample records).
C30_StartupFetchesSample ==
  [][last'.op = "bootstrapProfile" /\ cache = <<>> /\ storedPath = <<>>
       => \E i \in 1..Len(net') : net'[i].kind = "sample"]_vars

----------------------------------------------------------------------------
(* Termination of a render *)

\* The frame callbacks of the current generation that wait in the queue
CurrentFrames ==
  {i \in 1..Len(rafQueue) : rafQueue[i].generation = renderGeneration}

\* The batches the current render has appended, and those its list needs
BatchesRun == (Len(grid) + BATCH_SIZE - 1) \div BATCH_SIZE
BatchesNeeded == (Len(rendered) + BATCH_SIZE - 1) \div BATCH_SIZE

\* The current render has run its completion step
RenderCompleted ==
  /\ grid = rendered
  /\ loadingHidden
  /\ CurrentFrames = {}

\* Until its completion step a render of a non-empty list has one callback
\* waiting, which holds the records not yet shown; all records are shown
\* exactly when the needed number of batches has run
RenderInProgress ==
  rendered # <<>> =>
    /\ (grid = rendered) = (BatchesRun = BatchesNeeded)
    /\ BatchesRun >= 1
    /\ IF loadingHidden THEN RenderCompleted
       ELSE /\ Cardinality(CurrentFrames) = 1
            /\ \A i \in CurrentFrames :
                 /\ rafQueue[i].games = rendered
                 /\ grid \o rafQueue[i].queue = rendered

\* A frame of the current render appends one batch, in list order
BatchAppendsNext ==
  last'.op = "frame:batch" /\ UNCHANGED renderGeneration
  => /\ BatchesRun' = BatchesRun + 1
     /\ grid' = SubSeq(rendered, 1, Len(grid'))
     /\ ~loadingHidden'

\* The completion step runs for a render that has shown all its records and
\* has not completed, and leaves no callback of the render behind
CompletionRunsOnce ==
  last'.op = "frame:complete" /\ UNCHANGED renderGeneration
  => /\ ~loadingHidden
     /\ grid = rendered
     /\ RenderCompleted'

\* C31: if no further render is started and every requested animation-frame
\* callback eventually runs, the render of a non-empty list of n records
\* terminates: after ceil(n/24) batches all n records are displayed in list
\* order, the loading indicator is hidden and the completion step has run
\* exactly once.
C31_RenderTerminates ==
  /\ []RenderInProgress
  /\ [][BatchAppendsNext /\ CompletionRunsOnce]_vars
  /\ \A g \in 1..MaxGenRender :
       [](renderGeneration = g /\ rendered # <<>>
          => <>(renderGeneration # g \/ RenderCompleted))

\* The completion step of a render of more than one batch has just run and
\* every record of its list is displayed
C31_Witness ==
  /\ last.op = "frame:complete"
  /\ BatchesNeeded > 1
  /\ BatchesRun = BatchesNeeded
  /\ RenderCompleted

----------------------------------------------------------------------------
(* The lists handed to the renderer *)

\* C32: every list handed to the renderer, including the one rendered by a
\* view-mode switch, contains only records of the current Library that
\* satisfy the active query, store, status and genre filters; when the
\* filters match no record, no record is displayed.
C32_RenderedListIsFiltered ==
  [][renderGeneration' # renderGeneration
       => /\ \A i \in 1..Len(rendered') :
               /\ \E k \in 1..Len(games') : games'[k] = rendered'[i]
               /\ matchesFilter(rendered'[i], searchInput', storeFilter',
                                statusFilter', genreFilter')
          /\ (filterGames(games', searchInput', storeFilter', statusFilter',
                          genreFilter') = <<>>
              => rendered' = <<>> /\ grid' = <<>>)]_vars

----------------------------------------------------------------------------
(* The active profile path *)

\* The step completes a save whose request was explicit (not an autosave)
\* and had the path `path`
ExplicitSaveDone(path) ==
  /\ last'.op = "saveProfile:ok"
  /\ \E i \in 1..Len(net) :
       /\ net[i].kind = "save"
       /\ net[i].phase = "done"
       /\ ~net[i].silent
       /\ net[i].path = path
       /\ net' = RemoveAt(net, i)

\* C33: the active profile path (state.profilePath and the stored preference
\* entry) changes only when a user-triggered profile save, load or delete
\* succeeds, and then to that operation's path (cleared on delete); the
\* completion of an autosave never changes it, in whatever order the
\* responses arrive.
C33_PathFollowsUserOperations ==
  [][/\ (profilePath' # profilePath \/ storedPath' # storedPath)
        => /\ profilePath' = storedPath'
           /\ \/ ExplicitSaveDone(profilePath')
              \/ last'.op = "loadProfile:ok" /\ last'.text = profilePath'
              \/ last'.op = "deleteProfile:ok" /\ profilePath' = <<>>
     /\ (last'.op = "saveProfile:ok" /\ last'.text = <<"silent">>)
        => UNCHANGED << profilePath, storedPath >>]_vars

----------------------------------------------------------------------------
(* The pending refinement candidate *)

\* A candidate is pending: one is chosen and confirmation is enabled
CandidatePending ==
  /\ pendingRefineSelection # NoMatch
  /\ ~searchConfirmDisabled

\* C34: whenever a refinement candidate is pending it is an element of the
\* candidate list currently held, also when several searches are in flight
\* and their responses arrive in any order; a click on a candidate replaces
\* the prior choice, so one candidate at most is pending.
C34_PendingCandidateIsListed ==
  /\ [](CandidatePending
        => \E i \in 1..Len(pendingRefineMatches) :
             pendingRefineMatches[i] =
               [pendingRefineSelection EXCEPT !.__matchIndex = NoId])
  /\ [][last'.op = "clickSearchResult"
         => /\ CandidatePending'
            /\ pendingRefineSelection' =
                 [searchResults[last'.n + 1] EXCEPT !.__matchIndex = last'.n]]_vars

----------------------------------------------------------------------------
(* Operations that do not succeed *)

\* The steps at which a user-triggered operation ends without success: its
\* request was refused, or it was given up before any request
FailedOps ==
  {"handleUpload:failed", "handleUpload:raised", "loadSampleLibrary:failed",
   "loadSampleLibrary:raised", "handleManualAdd:failed", "saveProfile:failed",
   "saveProfile:nogames", "loadProfile:failed", "deleteProfile:failed"}
  \cup PreflightOps

\* C35: every user-triggered operation that does not succeed (upload, sample
\* fetch, manual add, explicit profile save, profile load, profile delete)
\* leaves the Library, the selection set, the cache entry and the active
\* profile path unchanged and ends with an error status message shown to
\* the user.
C35_FailureKeepsStateAndShowsError ==
  [][last'.op \in FailedOps /\ last'.text # <<"silent">>
       => /\ UNCHANGED << games, selectedIds, cache, profilePath, storedPath >>
          /\ status'.error]_vars

----------------------------------------------------------------------------
(* The two-step delete *)

\* The records of `list` whose id is not gameId, in their order
Without(list, gameId) ==
  LET Other(game) == game.__id # gameId IN SelectSeq(list, Other)

\* A delete is pending exactly while the confirm dialog is open
DeleteDialogTracksPending == (pendingDeleteId # NoId) = ~confirmDialogHidden

\* What each step of the delete dialog does to the Library
DeleteStep ==
  /\ last'.op = "requestDeleteGame"
       => /\ UNCHANGED games
          /\ pendingDeleteId' = last'.n
  /\ last'.op = "cancelDeleteGame"
       => /\ UNCHANGED << games, filtered, selectedIds, cache, net >>
          /\ pendingDeleteId' = NoId
  /\ last'.op = "confirmDeleteGame"
       => /\ pendingDeleteId # NoId
          /\ games' = Without(games, pendingDeleteId)
          /\ Len(games') = Len(games) - 1
          /\ pendingDeleteId' = NoId
  /\ last'.op = "confirmDeleteGame:absent"
       => /\ UNCHANGED << games, filtered, selectedIds, cache, net >>
          /\ pendingDeleteId' = NoId

\* A record leaves the Library at the confirmation of a delete that was
\* requested for it, or when an ingestion replaces the Library
RemovalIsConfirmed ==
  /\ (\E i \in 1..Len(games) : games[i].__id \notin Ids(games'))
       => \/ last'.op = "confirmDeleteGame" /\ ~confirmDialogHidden
          \/ last'.op = "loadSampleLibrary:ok"
  /\ (pendingDeleteId' # pendingDeleteId /\ pendingDeleteId' # NoId)
       => last'.op = "requestDeleteGame"

\* C36: a delete takes effect only after it is requested and then confirmed:
\* cancelling the pending delete leaves the Library unchanged, and confirming
\* removes exactly the one record with the pending id, keeps the relative
\* order and contents of all other records, and is a no-op when no record
\* has that id.
C36_DeleteIsRequestedThenConfirmed ==
  /\ []DeleteDialogTracksPending
  /\ [][DeleteStep /\ RemovalIsConfirmed]_vars

\* The delete of the first of two records was requested and confirmed: the
\* second record is the Library
C36_Witness ==
  /\ last.op = "confirmDeleteGame"
  /\ last.n = 0
  /\ Ids(games) = {1}
  /\ confirmDialogHidden

============================================================================
